---- MODULE Spec2Model ----
(***************************************************************************)
(* Model of the Suno data-migration pipeline (src/main.py, src/models.py): *)
(* the pydantic record models and their field validators, validate_data,   *)
(* the target CSV files and the SQLite store written by save_target_data,  *)
(* the reconciliation functions, and the phases of main.                   *)
(*                                                                         *)
(* Values.  A Python scalar is a tagged record: NaN (pandas NaN / None),   *)
(* Str(s) with s a sequence of one-character strings, IntV(n), and         *)
(* FloatV(m) with m the value in thousandths (FloatV(150750) is 150.75).   *)
(***************************************************************************)
EXTENDS Integers, Sequences, FiniteSets, TLC

VARIABLES
    pc,          \* position of main(): the phase that runs next
    run,         \* number of runs of main() started so far
    source,      \* data/*.csv: the three source tables, as pandas reads them
    source_dfs,  \* the data frames load_source_data returned in this run
    successful,  \* validate_data's accepted records, per table
    failed,      \* validate_data's rejected records, per table
    target_csv,  \* target_data/target/*.csv: the three files on disk
    db,          \* target_data/db_export/export.db: the committed rows
    target_dfs,  \* the data frames main re-read from the target CSV files
    report,      \* reconcile_report.json
    summary,     \* what print_reconciliation_summary printed in this run
    failed_dir,  \* target_data/failed: the rejected-record files
    log,         \* the phases this run has executed, in order
    error,       \* the exception that aborted this run, or "none"
    prev,        \* target_csv, db, report, failed_dir as the previous run left them
    arg,         \* input of the function under check (function-level specs)
    res          \* its result

vars == <<pc, run, source, source_dfs, successful, failed, target_csv, db,
          target_dfs, report, summary, failed_dir, log, error, prev, arg, res>>

-----------------------------------------------------------------------------
(* Python scalars *)

\* A value the model's arithmetic does not hold (TLC's integers have 32
\* bits): evaluating it stops the check, so no result rests on it.
Unrepresentable == CHOOSE x \in {} : TRUE

\* value, handed to body as a value: what body does with it is then one
\* evaluation of value, however often body names it
Bind(value, body(_)) == CHOOSE r \in {body(v) : v \in {value}} : TRUE

NaN == [k |-> "nan"]
Inf == [k |-> "inf"]
None == [k |-> "none"]
Str(s) == [k |-> "str", s |-> s]
IntV(n) == [k |-> "int", n |-> n]
FloatV(m) == [k |-> "float", n |-> m]
\* an integer of more than nine digits, kept as its digits
BigIntV(digits) == [k |-> "bigint", s |-> digits]
\* the same in a float column
BigFloatV(digits) == [k |-> "bigfloat", s |-> digits]

\* pd.isna(v)
isna(v) == v.k \in {"nan", "none"}

UpperChars == <<"A","B","C","D","E","F","G","H","I","J","K","L","M",
                "N","O","P","Q","R","S","T","U","V","W","X","Y","Z">>
LowerChars == <<"a","b","c","d","e","f","g","h","i","j","k","l","m",
                "n","o","p","q","r","s","t","u","v","w","x","y","z">>
DigitChars == <<"0","1","2","3","4","5","6","7","8","9">>

IsUpper(c) == \E i \in DOMAIN UpperChars : UpperChars[i] = c
IsLower(c) == \E i \in DOMAIN LowerChars : LowerChars[i] = c
IsDigit(c) == \E i \in DOMAIN DigitChars : DigitChars[i] = c
AllDigits(s) == s # <<>> /\ \A i \in 1..Len(s) : IsDigit(s[i])
DigitVal(c) == (CHOOSE i \in DOMAIN DigitChars : DigitChars[i] = c) - 1

\* str.lower(), str.upper(), str.strip() on a sequence of characters
LowerChar(c) ==
    IF IsUpper(c) THEN LowerChars[CHOOSE i \in DOMAIN UpperChars : UpperChars[i] = c] ELSE c
UpperChar(c) ==
    IF IsLower(c) THEN UpperChars[CHOOSE i \in DOMAIN LowerChars : LowerChars[i] = c] ELSE c
lower(s) == [i \in 1..Len(s) |-> LowerChar(s[i])]
upper(s) == [i \in 1..Len(s) |-> UpperChar(s[i])]
IsSpace(c) == c = " "
strip(s) ==
    IF \A i \in 1..Len(s) : IsSpace(s[i]) THEN <<>>
    ELSE LET a == CHOOSE i \in 1..Len(s) :
                      ~IsSpace(s[i]) /\ \A j \in 1..(i-1) : IsSpace(s[j])
             b == CHOOSE i \in 1..Len(s) :
                      ~IsSpace(s[i]) /\ \A j \in (i+1)..Len(s) : IsSpace(s[j])
         IN  SubSeq(s, a, b)

\* the decimal digits of a natural number, as str(n) prints them
RECURSIVE NatStr(_)
NatStr(n) == IF n < 10 THEN <<DigitChars[n + 1]>>
             ELSE NatStr(n \div 10) \o <<DigitChars[(n % 10) + 1]>>

\* a fixed number of fraction digits, trailing zeros dropped but one kept
RECURSIVE FracStr(_)
FracStr(m) == IF m % 10 = 0 /\ m >= 10 THEN FracStr(m \div 10)
              ELSE IF m = 0 THEN <<"0">> ELSE NatStr(m)

\* str(v): "1" for the int 1, "1.0" for the float 1.0, "nan" for NaN
str(v) ==
    CASE v.k = "str" -> v.s
      [] v.k = "nan" -> <<"n","a","n">>
      [] v.k = "none" -> <<"N","o","n","e">>
      [] v.k = "inf" -> <<"i","n","f">>
      [] v.k = "bigint" -> v.s
      [] v.k = "bigfloat" -> v.s \o <<".", "0">>
      [] v.k = "int" -> IF v.n < 0 THEN <<"-">> \o NatStr(-v.n) ELSE NatStr(v.n)
      [] v.k = "float" ->
            LET a == IF v.n < 0 THEN -v.n ELSE v.n
                whole == a \div 1000
                frac == a % 1000
                pad == IF frac = 0 THEN <<>>
                       ELSE IF frac < 10 THEN <<"0","0">>
                       ELSE IF frac < 100 THEN <<"0">> ELSE <<>>
            IN  (IF v.n < 0 THEN <<"-">> ELSE <<>>) \o NatStr(whole) \o <<".">>
                    \o pad \o FracStr(frac)

-----------------------------------------------------------------------------
(* src/models.py *)

\* generate_deterministic_uuid with uuid.uuid4(): a fresh identifier in each
\* run
generate_deterministic_uuid_Random(namespace, value) ==
    [k |-> "uuid", ns |-> namespace, name |-> str(value) \o <<"-">> \o NatStr(run)]

\* uuid.uuid5 of uuid5(NAMESPACE_DNS, "suno_migration_<namespace>") and
\* str(value): a name-based hash, modelled as the pair it hashes (distinct
\* pairs give distinct identifiers).
generate_deterministic_uuid(namespace, value) ==
    [k |-> "uuid", ns |-> namespace, name |-> str(value)]

is_null_or_empty(v) ==
    \/ isna(v)
    \/ v.k = "str" /\ strip(v.s) = <<>>
    \/ v.k = "str" /\ lower(v.s) = <<"n","a","n">>

\* the result of one field validator: the validated value, or the ValueError
Ok(v) == [ok |-> TRUE, v |-> v]
Err(m) == [ok |-> FALSE, msg |-> m, exc |-> "ValueError"]
\* an exception that is no ValueError: pydantic does not collect it
Raise(e) == [ok |-> FALSE, msg |-> e, exc |-> e]

\* the number written by the digits s[a..b], or -1 if one is not a digit
RECURSIVE Digits(_, _, _)
Digits(s, a, b) ==
    IF a > b THEN 0
    ELSE IF ~IsDigit(s[b]) THEN -1
    ELSE LET hi == Digits(s, a, b - 1)
         IN  IF hi < 0 THEN -1 ELSE hi * 10 + DigitVal(s[b])

DaysIn(y, mo) ==
    IF mo = 2 THEN (IF y % 4 = 0 /\ (y % 100 # 0 \/ y % 400 = 0) THEN 29 ELSE 28)
    ELSE IF mo \in {4, 6, 9, 11} THEN 30 ELSE 31

\* datetime.strptime(s, '%Y-%m-%d'), on the zero-padded form; [ok |-> FALSE]
\* stands for the ValueError strptime raises
strptime_date(s) ==
    IF Len(s) # 10 \/ s[5] # "-" \/ s[8] # "-" THEN Err("format")
    ELSE LET y == Digits(s, 1, 4)
             mo == Digits(s, 6, 7)
             d == Digits(s, 9, 10)
         IN  IF y < 1 \/ mo < 1 \/ mo > 12 \/ d < 1 THEN Err("format")
             ELSE IF d > DaysIn(y, mo) THEN Err("format")
             ELSE Ok([k |-> "date", y |-> y, mo |-> mo, d |-> d])

\* datetime.strptime(s, '%Y-%m-%d %H:%M'), on the zero-padded form
strptime_datetime(s) ==
    IF Len(s) # 16 \/ s[11] # " " \/ s[14] # ":" THEN Err("format")
    ELSE Bind(<<strptime_date(SubSeq(s, 1, 10)), Digits(s, 12, 13), Digits(s, 15, 16)>>,
              LAMBDA p :
                  LET dt == p[1]
                      h == p[2]
                      mi == p[3]
                  IN  IF ~dt.ok \/ h < 0 \/ h > 23 \/ mi < 0 \/ mi > 59 THEN Err("format")
                      ELSE Ok([k |-> "datetime", y |-> dt.v.y, mo |-> dt.v.mo,
                               d |-> dt.v.d, h |-> h, mi |-> mi]))

\* .replace(tzinfo=ZoneInfo('America/New_York')).astimezone(ZoneInfo('UTC')):
\* UTC is 4 hours ahead of New York daylight time and 5 hours ahead of
\* standard time.  Daylight time is taken as April to October: the days of
\* March and November on which the rule changes are not in the model's data.
astimezone_utc(t) ==
    LET off == IF t.mo \in 4..10 THEN 4 ELSE 5
        h == t.h + off
        next == h >= 24
        d == IF next THEN t.d + 1 ELSE t.d
        over == d > DaysIn(t.y, t.mo)
        mo == IF over THEN t.mo + 1 ELSE t.mo
    IN  [k |-> "datetime",
         y |-> IF mo > 12 THEN t.y + 1 ELSE t.y,
         mo |-> IF mo > 12 THEN 1 ELSE mo,
         d |-> IF over THEN 1 ELSE d,
         h |-> IF next THEN h - 24 ELSE h,
         mi |-> t.mi]

\* the body shared by parse_created, parse_apt, parse_issued and parse_paid
\* after their null test
parse_local(v) ==
    Bind(Bind(str(v), LAMBDA s : strptime_datetime(s)),
         LAMBDA t : IF t.ok THEN Bind(t.v, LAMBDA local : Ok(astimezone_utc(local)))
                    ELSE Err("Invalid datetime format"))

\* PatientModel.parse_dob
parse_dob(v) ==
    IF is_null_or_empty(v) THEN Err("DOB is required")
    ELSE Bind(Bind(str(v), LAMBDA s : strptime_date(s)),
              LAMBDA t : IF t.ok THEN t ELSE Err("Invalid date format"))

\* PatientModel.parse_created
parse_created(v) ==
    IF is_null_or_empty(v) THEN Err("created_at is required") ELSE parse_local(v)

\* PatientModel.email_lower
email_lower(v) ==
    IF is_null_or_empty(v) THEN Err("Email is required")
    ELSE Ok(Str(lower(strip(str(v)))))

\* the digits of s, in order
RECURSIVE OnlyDigits(_)
OnlyDigits(s) ==
    IF s = <<>> THEN <<>>
    ELSE (IF IsDigit(Head(s)) THEN <<Head(s)>> ELSE <<>>) \o OnlyDigits(Tail(s))

IsPhonePunctuation(c) == c \in {" ", "(", ")", "-", ".", "+"}

\* phonenumbers.parse(s, "US"): the national number, or [ok |-> FALSE] for a
\* NumberParseException.  A leading "+" must be followed by country code 1;
\* without it a leading 1 before ten digits is the country code.
phonenumbers_parse(s) ==
    Bind(strip(s), LAMBDA t :
    Bind(OnlyDigits(t), LAMBDA d :
        LET plus == t # <<>> /\ Head(t) = "+"
        IN  IF d = <<>> \/ \E i \in 1..Len(t) : ~IsDigit(t[i]) /\ ~IsPhonePunctuation(t[i])
                THEN Err("NOT_A_NUMBER")
            ELSE IF plus /\ Head(d) # "1" THEN Err("INVALID_COUNTRY_CODE")
            ELSE IF plus THEN Ok(Tail(d))
            ELSE IF Len(d) = 11 /\ Head(d) = "1" THEN Ok(Tail(d))
            ELSE Ok(d)))

\* phonenumbers.is_possible_number: a US national number has ten digits, and a
\* seven-digit number is possible as a local number
is_possible_number(national) == Len(national) \in {7, 10}

\* format_number(parsed, PhoneNumberFormat.E164)
format_e164(national) == <<"+", "1">> \o national

\* PatientModel.to_e164
to_e164(v) ==
    IF is_null_or_empty(v) THEN Ok(None)
    ELSE Bind(phonenumbers_parse(str(v)),
              LAMBDA parsed : IF parsed.ok /\ is_possible_number(parsed.v)
                                  THEN Ok(Str(format_e164(parsed.v)))
                              ELSE Ok(None))

\* EncounterModel.parse_apt
parse_apt(v) ==
    IF is_null_or_empty(v) THEN Err("encounter_ts_utc is required") ELSE parse_local(v)

\* EncounterModel.status_map: mapping.get(key, default)
status_map(v) ==
    IF is_null_or_empty(v) THEN Err("Status is required")
    ELSE Bind(strip(str(v)), LAMBDA t :
         Bind(upper(t), LAMBDA key :
             IF key = <<"S","C","H","E","D","U","L","E","D">>
                 THEN Ok(Str(<<"s","c","h","e","d","u","l","e","d">>))
             ELSE IF key = <<"C","A","N","C","E","L","L","E","D">>
                 THEN Ok(Str(<<"c","a","n","c","e","l","l","e","d">>))
             ELSE IF key = <<"C","O","M","P","L","E","T","E","D">>
                 THEN Ok(Str(<<"c","o","m","p","l","e","t","e","d">>))
             ELSE Ok(Str(lower(t)))))

\* InvoiceModel.status_lower: mapping.get(key, default)
status_lower(v) ==
    IF is_null_or_empty(v) THEN Err("Status is required")
    ELSE Bind(strip(str(v)), LAMBDA t :
         Bind(upper(t), LAMBDA key :
             IF key = <<"O","P","E","N">> THEN Ok(Str(<<"o","p","e","n">>))
             ELSE IF key = <<"P","A","I","D">> THEN Ok(Str(<<"p","a","i","d">>))
             ELSE Ok(Str(lower(t)))))

\* the text of a decimal number: [sign] digits [. digits], with a digit
IsDecimalText(t) ==
    LET u == IF t # <<>> /\ Head(t) \in {"+", "-"} THEN Tail(t) ELSE t
        dots == {i \in 1..Len(u) : u[i] = "."}
    IN  /\ Cardinality(dots) <= 1
        /\ \E i \in 1..Len(u) : IsDigit(u[i])
        /\ \A i \in 1..Len(u) : IsDigit(u[i]) \/ u[i] = "."

\* the value, in thousandths, of a decimal text of at most six digits before
\* the point and three after it
DecimalValue(t) ==
    Bind(IF Head(t) \in {"+", "-"} THEN Tail(t) ELSE t, LAMBDA u :
    Bind(IF \E i \in 1..Len(u) : u[i] = "."
             THEN CHOOSE i \in 1..Len(u) : u[i] = "." ELSE Len(u) + 1, LAMBDA dot :
    Bind(IF dot > Len(u) THEN 0 ELSE Len(u) - dot, LAMBDA nfrac :
        LET neg == Head(t) = "-"
            scale == CASE nfrac = 0 -> 1000 [] nfrac = 1 -> 100 [] nfrac = 2 -> 10
                       [] OTHER -> 1
            m == Digits(u, 1, dot - 1) * 1000 + Digits(u, dot + 1, Len(u)) * scale
        IN  IF dot > 7 \/ nfrac > 3 THEN Unrepresentable
            ELSE IF neg THEN -m ELSE m)))

\* float(v) in thousandths; [ok |-> FALSE] is the ValueError of float("abc")
python_float(v) ==
    CASE v.k = "int" -> Ok(v.n * 1000)
      [] v.k = "float" -> Ok(v.n)
      [] v.k = "str" ->
            Bind(strip(v.s),
                 LAMBDA t : IF IsDecimalText(t) THEN Ok(DecimalValue(t)) ELSE Err("float"))
      [] OTHER -> Err("float")

\* round(x) of Python 3 for x = m / 10: to the nearest integer, a tie to the
\* even one
python_round_tenths(m) ==
    Bind(IF m >= 0 THEN m \div 10 ELSE -((-m + 9) \div 10), LAMBDA lo :
        LET r == m - lo * 10
        IN  IF r < 5 THEN lo
            ELSE IF r > 5 THEN lo + 1
            ELSE IF lo % 2 = 0 THEN lo ELSE lo + 1)

\* InvoiceModel.convert_dollars_to_cents; round(float('inf')) raises
\* OverflowError, which the except clause (ValueError, TypeError) lets pass
convert_dollars_to_cents(v) ==
    IF is_null_or_empty(v) THEN Err("invoice_total_cents is required")
    ELSE IF v.k = "inf" \/ (v.k = "str" /\ lower(strip(v.s)) = <<"i","n","f">>)
        THEN Raise("OverflowError")
    ELSE Bind(python_float(v),
              LAMBDA dollars : IF dollars.ok THEN Ok(IntV(python_round_tenths(dollars.v)))
                               ELSE Err("Invalid amount format"))

\* InvoiceModel.parse_issued (its null branch returns None, as parse_paid's)
parse_issued(v) ==
    IF is_null_or_empty(v) THEN Ok(None) ELSE parse_local(v)

\* InvoiceModel.parse_paid
\* parse_paid that gives None for a date it cannot parse
parse_paid_Null(v) ==
    IF is_null_or_empty(v) THEN Ok(None)
    ELSE Bind(parse_local(v), LAMBDA t : IF t.ok THEN t ELSE Ok(None))

parse_paid(v) ==
    IF is_null_or_empty(v) THEN Ok(None) ELSE parse_local(v)

(* pydantic's own validation of a field against its annotation, applied to *)
(* what the field's pre-validator returned                                 *)

\* str
type_str(r) == IF r.ok /\ r.v.k # "str" THEN Err("string_type") ELSE r

\* int: an int, a float without fraction, or a string of digits
type_int(r) ==
    IF ~r.ok THEN r
    ELSE CASE r.v.k = "int" -> r
           [] r.v.k = "float" ->
                IF r.v.n % 1000 = 0 THEN Ok(IntV(r.v.n \div 1000)) ELSE Err("int_from_float")
           [] r.v.k = "bigint" -> r
           [] r.v.k = "str" ->
                IF ~AllDigits(r.v.s) THEN Err("int_parsing")
                ELSE IF Len(r.v.s) > 9 THEN Ok(BigIntV(r.v.s))
                ELSE Ok(IntV(Digits(r.v.s, 1, Len(r.v.s))))
           [] OTHER -> Err("int_type")

\* date, datetime
type_date(r) == IF r.ok /\ r.v.k # "date" THEN Err("date_type") ELSE r
type_datetime(r) == IF r.ok /\ r.v.k # "datetime" THEN Err("datetime_type") ELSE r

\* Optional[str], Optional[datetime]
type_optional_str(r) == IF r.ok /\ r.v.k \notin {"str", "none"} THEN Err("string_type") ELSE r
type_optional_datetime(r) ==
    IF r.ok /\ r.v.k \notin {"datetime", "none"} THEN Err("datetime_type") ELSE r

\* the names (aliases) of the fields whose validation failed, in field order
RECURSIVE FailedFields(_, _)
FailedFields(names, results) ==
    IF names = <<>> THEN <<>>
    ELSE (IF results[Head(names)].ok THEN <<>> ELSE <<Head(names)>>)
             \o FailedFields(Tail(names), results)

\* BaseModel.__init__ on the validated fields f: the first exception that is
\* no ValueError leaves the constructor as it is; ValueErrors are collected
\* into one ValidationError naming every failing field; otherwise the model
\* is built and model_dump() gives rec.
pydantic_init(names, f, rec) ==
    Bind(FailedFields(names, f), LAMBDA bad :
        IF bad = <<>> THEN [ok |-> TRUE, rec |-> rec]
        ELSE IF \E i \in 1..Len(bad) : f[bad[i]].exc # "ValueError"
            THEN Bind(CHOOSE j \in 1..Len(bad) :
                          /\ f[bad[j]].exc # "ValueError"
                          /\ \A h \in 1..(j-1) : f[bad[h]].exc = "ValueError",
                      LAMBDA i : [ok |-> FALSE, exc |-> f[bad[i]].exc, fields |-> <<>>])
        ELSE [ok |-> FALSE, exc |-> "ValidationError", fields |-> bad])

PatientFields ==
    <<"first_name", "last_name", "dob", "phone", "email", "created_at", "legacy_id">>

\* PatientModel(**row).model_dump()
PatientModel(row) ==
    Bind([first_name |-> type_str(Ok(row.first_name)),
         last_name  |-> type_str(Ok(row.last_name)),
         dob        |-> type_date(parse_dob(row.dob)),
         phone      |-> type_optional_str(to_e164(row.phone)),
         email      |-> type_str(email_lower(row.email)),
         created_at |-> type_datetime(parse_created(row.created_at)),
         legacy_id  |-> type_int(Ok(row.legacy_id))],
    LAMBDA f : pydantic_init(PatientFields, f,
            [patient_uuid |-> generate_deterministic_uuid("patient", row.legacy_id),
             first_name |-> f.first_name.v,
             last_name  |-> f.last_name.v,
             dob        |-> f.dob.v,
             phone_e164 |-> f.phone.v,
             email      |-> f.email.v,
             created_at |-> f.created_at.v,
             legacy_id  |-> f.legacy_id.v]))

EncounterFields ==
    <<"appointment_date", "provider_name", "location", "status", "legacy_id", "patient_id">>

\* EncounterModel(**row).model_dump()
EncounterModel(row) ==
    Bind([appointment_date |-> type_datetime(parse_apt(row.appointment_date)),
         provider_name    |-> type_str(Ok(row.provider_name)),
         location         |-> type_str(Ok(row.location)),
         status           |-> type_str(status_map(row.status)),
         legacy_id        |-> type_int(Ok(row.legacy_id)),
         patient_id       |-> type_int(Ok(row.patient_id))],
    LAMBDA f : pydantic_init(EncounterFields, f,
            [encounter_uuid |-> generate_deterministic_uuid("encounter", row.legacy_id),
             patient_uuid   |-> generate_deterministic_uuid("patient", row.patient_id),
             encounter_ts_utc |-> f.appointment_date.v,
             provider_name  |-> f.provider_name.v,
             location       |-> f.location.v,
             status         |-> f.status.v,
             legacy_id      |-> f.legacy_id.v,
             patient_legacy_id |-> f.patient_id.v]))

InvoiceFields ==
    <<"amount_usd", "status", "issued_date", "paid_date", "legacy_id", "patient_id">>

\* InvoiceModel(**row).model_dump()
InvoiceModel(row) ==
    Bind([amount_usd  |-> type_int(convert_dollars_to_cents(row.amount_usd)),
         status      |-> type_str(status_lower(row.status)),
         issued_date |-> type_datetime(parse_issued(row.issued_date)),
         paid_date   |-> type_optional_datetime(parse_paid(row.paid_date)),
         legacy_id   |-> type_int(Ok(row.legacy_id)),
         patient_id  |-> type_int(Ok(row.patient_id))],
    LAMBDA f : pydantic_init(InvoiceFields, f,
            [invoice_uuid   |-> generate_deterministic_uuid("invoice", row.legacy_id),
             patient_uuid   |-> generate_deterministic_uuid("patient", row.patient_id),
             invoice_total_cents |-> f.amount_usd.v,
             status         |-> f.status.v,
             issued_date_utc |-> f.issued_date.v,
             paid_date_utc  |-> f.paid_date.v,
             legacy_id      |-> f.legacy_id.v,
             patient_legacy_id |-> f.patient_id.v]))

\* model_class(**row_dict).model_dump() for the class main passes
construct(model_class, row) ==
    CASE model_class = "PatientModel" -> PatientModel(row)
      [] model_class = "EncounterModel" -> EncounterModel(row)
      [] model_class = "InvoiceModel" -> InvoiceModel(row)

-----------------------------------------------------------------------------
(* src/main.py: validate_data *)

\* the record of a row built without validation (model_construct)
unvalidated_record(row, table_name) ==
    CASE table_name = "patients" ->
            [patient_uuid |-> generate_deterministic_uuid("patient", row.legacy_id),
             first_name |-> row.first_name, last_name |-> row.last_name, dob |-> row.dob,
             phone_e164 |-> row.phone, email |-> row.email, created_at |-> row.created_at,
             legacy_id |-> row.legacy_id]
      [] table_name = "appointments" ->
            [encounter_uuid |-> generate_deterministic_uuid("encounter", row.legacy_id),
             patient_uuid |-> generate_deterministic_uuid("patient", row.patient_id),
             encounter_ts_utc |-> row.appointment_date, provider_name |-> row.provider_name,
             location |-> row.location, status |-> row.status,
             legacy_id |-> row.legacy_id, patient_legacy_id |-> row.patient_id]
      [] table_name = "invoices" ->
            [invoice_uuid |-> generate_deterministic_uuid("invoice", row.legacy_id),
             patient_uuid |-> generate_deterministic_uuid("patient", row.patient_id),
             invoice_total_cents |-> row.amount_usd, status |-> row.status,
             issued_date_utc |-> row.issued_date, paid_date_utc |-> row.paid_date,
             legacy_id |-> row.legacy_id, patient_legacy_id |-> row.patient_id]

\* validate_row that keeps a rejected row among the records to save
validate_row_KeepRejected(acc, index, row, model_class, table_name) ==
    Bind(construct(model_class, row), LAMBDA r :
        IF r.ok
            THEN [acc EXCEPT !.successful = Append(@, r.rec)]
        ELSE [acc EXCEPT !.successful = Append(@, unvalidated_record(row, table_name)),
                         !.failed = Append(@,
                 [row_index |-> index,
                  table |-> table_name,
                  legacy_id |-> row.legacy_id,
                  field |-> IF r.fields = <<>> THEN <<"unknown">> ELSE r.fields,
                  error_message |-> r.exc,
                  source_data |-> row])])

\* validate_row with one rejected record per failing field
validate_row_PerField(acc, index, row, model_class, table_name) ==
    Bind(construct(model_class, row), LAMBDA r :
        IF r.ok
            THEN [acc EXCEPT !.successful = Append(@, r.rec)]
        ELSE [acc EXCEPT !.failed = @ \o
                 [i \in 1..(IF r.fields = <<>> THEN 1 ELSE Len(r.fields)) |->
                     [row_index |-> index,
                      table |-> table_name,
                      legacy_id |-> row.legacy_id,
                      field |-> IF r.fields = <<>> THEN <<"unknown">> ELSE <<r.fields[i]>>,
                      error_message |-> r.exc,
                      source_data |-> row]]])

\* validate_row with insert(0, ...) for append
validate_row_Prepend(acc, index, row, model_class, table_name) ==
    Bind(construct(model_class, row), LAMBDA r :
        IF r.ok
            THEN [acc EXCEPT !.successful = <<r.rec>> \o @]
        ELSE [acc EXCEPT !.failed = <<[row_index |-> index,
                                       table |-> table_name,
                                       legacy_id |-> row.legacy_id,
                                       field |-> IF r.fields = <<>> THEN <<"unknown">>
                                                 ELSE r.fields,
                                       error_message |-> r.exc,
                                       source_data |-> row]>> \o @])

\* validate_row with "except ValidationError" for "except Exception"
validate_row_Reraise(acc, index, row, model_class, table_name) ==
    Bind(construct(model_class, row), LAMBDA r :
        IF r.ok
            THEN [acc EXCEPT !.successful = Append(@, r.rec)]
        ELSE IF r.exc # "ValidationError" THEN [acc EXCEPT !.raised = TRUE]
        ELSE [acc EXCEPT !.failed = Append(@,
                 [row_index |-> index,
                  table |-> table_name,
                  legacy_id |-> row.legacy_id,
                  field |-> r.fields,
                  error_message |-> r.exc,
                  source_data |-> row])])

\* the try/except of one iteration: the record is appended to
\* successful_records, or any Exception is caught and one entry is appended
\* to failed_records.  raised stays FALSE: nothing leaves the handler.
validate_row(acc, index, row, model_class, table_name) ==
    Bind(construct(model_class, row), LAMBDA r :
        IF r.ok
            THEN [acc EXCEPT !.successful = Append(@, r.rec)]
        ELSE [acc EXCEPT !.failed = Append(@,
                 [row_index |-> index,
                  table |-> table_name,
                  legacy_id |-> row.legacy_id,
                  field |-> IF r.fields = <<>> THEN <<"unknown">> ELSE r.fields,
                  error_message |-> r.exc,
                  source_data |-> row])])

\* the for loop over df.iterrows(), from position i on; an exception that left
\* an iteration would end the loop
RECURSIVE validate_loop(_, _, _, _, _)
validate_loop(rows, model_class, table_name, i, acc) ==
    IF i > Len(rows) \/ acc.raised THEN acc
    ELSE Bind(Bind(rows[i], LAMBDA row :
                  validate_row(acc, i - 1, row, model_class, table_name)),
              LAMBDA next : validate_loop(rows, model_class, table_name, i + 1, next))

validate_data(df, model_class, table_name) ==
    Bind(df.rows, LAMBDA rows :
        validate_loop(rows, model_class, table_name, 1,
                      [successful |-> <<>>, failed |-> <<>>, raised |-> FALSE]))

-----------------------------------------------------------------------------
(* pandas data frames and CSV files.  A data frame, and a CSV file, is      *)
(* [columns |-> sequence of names, rows |-> sequence of records].  A cell   *)
(* of a CSV file is the text written for it.                                *)

Pad2(n) == IF n < 10 THEN <<"0">> \o NatStr(n) ELSE NatStr(n)
Pad4(n) == IF n < 10 THEN <<"0","0","0">> \o NatStr(n)
           ELSE IF n < 100 THEN <<"0","0">> \o NatStr(n)
           ELSE IF n < 1000 THEN <<"0">> \o NatStr(n) ELSE NatStr(n)

\* str(date), and str(datetime) of a UTC-aware datetime
isoformat(v) ==
    IF v.k = "date" THEN Pad4(v.y) \o <<"-">> \o Pad2(v.mo) \o <<"-">> \o Pad2(v.d)
    ELSE Pad4(v.y) \o <<"-">> \o Pad2(v.mo) \o <<"-">> \o Pad2(v.d) \o <<" ">>
             \o Pad2(v.h) \o <<":">> \o Pad2(v.mi) \o <<":","0","0","+","0","0",":","0","0">>

\* the text to_csv writes for one value (a missing value is the empty text);
\* an identifier stands for its own 32 hex digits
to_csv_cell(v) ==
    CASE v.k \in {"none", "nan"} -> Str(<<>>)
      [] v.k \in {"date", "datetime"} -> Str(isoformat(v))
      [] v.k = "uuid" -> v
      [] OTHER -> Str(str(v))

\* pd.DataFrame(records): the columns are the keys of the records, and a
\* frame built from no record has no column
DataFrame(records, columns) ==
    [columns |-> IF records = <<>> THEN <<>> ELSE columns, rows |-> records]

\* DataFrame.to_csv(path, index=False)
to_csv(df) ==
    [columns |-> df.columns,
     rows |-> [i \in 1..Len(df.rows) |->
                  [c \in DOMAIN df.rows[i] |-> to_csv_cell(df.rows[i][c])]]]

\* the texts read_csv takes for a missing value (its default na_values)
NaTexts ==
    { <<>>, <<"n","a","n">>, <<"N","a","N">>, <<"N","A">>, <<"N","/","A">>,
      <<"n","/","a">>, <<"n","u","l","l">>, <<"N","U","L","L">>,
      <<"N","o","n","e">>, <<"#","N","/","A">>, <<"<","N","A",">">> }

IsNaText(cell) == cell.k = "str" /\ cell.s \in NaTexts

\* a text the parser reads as an integer: an optional sign and digits
IsIntText(cell) ==
    /\ cell.k = "str"
    /\ cell.s # <<>>
    /\ AllDigits(IF Head(cell.s) \in {"+", "-"} THEN Tail(cell.s) ELSE cell.s)

IntOfText(cell) ==
    LET neg == Head(cell.s) = "-"
        u == IF Head(cell.s) \in {"+", "-"} THEN Tail(cell.s) ELSE cell.s
    IN  IF Len(u) > 9 THEN BigIntV(IF neg THEN <<"-">> \o u ELSE u)
        ELSE IntV(IF neg THEN -Digits(u, 1, Len(u)) ELSE Digits(u, 1, Len(u)))

IsInfText(cell) == cell.k = "str" /\ cell.s = <<"i","n","f">>

\* a text the parser reads as a number
IsNumberText(cell) ==
    cell.k = "str" /\ (IsIntText(cell) \/ IsInfText(cell) \/ IsDecimalText(cell.s))

\* pd.read_csv(path).  A path without a file raises FileNotFoundError, a file
\* without a header line EmptyDataError.
\* An NA text is NaN.  A column with a row and only integers is int64; one
\* whose texts are numbers or NA is float64, its integers floats; any other
\* column keeps its texts.
read_csv(file) ==
    IF "missing" \in DOMAIN file THEN [ok |-> FALSE, exc |-> "FileNotFoundError"]
    ELSE IF file.columns = <<>> THEN [ok |-> FALSE, exc |-> "EmptyDataError"]
    ELSE LET n == Len(file.rows)
             int64(c) == n > 0 /\ \A i \in 1..n : IsIntText(file.rows[i][c])
             float64(c) ==
                 n > 0 /\ \A i \in 1..n :
                     IsNaText(file.rows[i][c]) \/ IsNumberText(file.rows[i][c])
             cell(c, v) ==
                 IF v.k # "str" THEN v
                 ELSE IF IsNaText(v) THEN NaN
                 ELSE IF int64(c) THEN IntOfText(v)
                 ELSE IF float64(c) THEN
                     (IF IsInfText(v) THEN Inf
                      ELSE IF IsIntText(v) /\ IntOfText(v).k = "bigint"
                          THEN BigFloatV(IntOfText(v).s)
                      ELSE FloatV(DecimalValue(v.s)))
                 ELSE v
         IN  [ok |-> TRUE,
              df |-> [columns |-> file.columns,
                      rows |-> [i \in 1..n |->
                                   [c \in DOMAIN file.rows[i] |-> cell(c, file.rows[i][c])]]]]

HasColumn(df, c) == \E i \in 1..Len(df.columns) : df.columns[i] = c

\* pd.to_datetime on one cell written by to_csv
to_datetime_cell(v) ==
    IF isna(v) THEN NaN
    ELSE LET t == strptime_datetime(SubSeq(v.s, 1, 16))
         IN  t.v

\* df[c] = pd.to_datetime(df[c])
to_datetime(df, c) ==
    [df EXCEPT !.rows = [i \in 1..Len(df.rows) |->
                            [df.rows[i] EXCEPT ![c] = to_datetime_cell(@)]]]

\* load_source_data: read_csv of the three source files, in this order; the
\* exception of the first that raises is the call's
load_source_data(files) ==
    Bind(<<read_csv(files.patients), read_csv(files.appointments),
           read_csv(files.invoices)>>,
         LAMBDA r :
             IF \E i \in 1..3 : ~r[i].ok
                 THEN [ok |-> FALSE,
                       exc |-> r[CHOOSE i \in 1..3 :
                                     ~r[i].ok /\ \A j \in 1..(i - 1) : r[j].ok].exc]
             ELSE [ok |-> TRUE,
                   dfs |-> [patients |-> r[1].df, appointments |-> r[2].df,
                            invoices |-> r[3].df]])

-----------------------------------------------------------------------------
(* src/main.py: export_to_sqlite and save_target_data.  A table of the     *)
(* store is the set of its rows.                                           *)

PatientColumns ==
    <<"patient_uuid", "first_name", "last_name", "dob", "phone_e164", "email", "created_at">>
EncounterColumns ==
    <<"encounter_uuid", "patient_uuid", "encounter_ts_utc", "provider_name", "location", "status">>
InvoiceColumns ==
    <<"invoice_uuid", "patient_uuid", "invoice_total_cents", "status", "issued_date_utc",
      "paid_date_utc">>

Range(f) == {f[i] : i \in DOMAIN f}

\* the value sqlite3 binds for a parameter: a date or datetime goes through
\* the default adapter (its ISO text), None is NULL
sqlite_adapt(v) == IF v.k \in {"date", "datetime"} THEN Str(isoformat(v)) ELSE v

\* the row INSERT builds from its VALUES (...)
bind(rec, columns) == [c \in Range(columns) |-> sqlite_adapt(rec[c])]

\* upsert_patient on a table without its PRIMARY KEY: no conflict arises
upsert_patient_NoKey(table, patient) ==
    table \cup {bind(patient, PatientColumns)}

\* upsert_patient with INSERT OR REPLACE: the stored row is replaced whole
upsert_patient_Replace(table, patient) ==
    LET new == bind(patient, PatientColumns)
    IN  {r \in table : r.patient_uuid # new.patient_uuid} \cup {new}

\* INSERT INTO patients ... ON CONFLICT(patient_uuid) DO UPDATE SET
\* first_name, last_name, phone_e164, email
upsert_patient(table, patient) ==
    LET new == bind(patient, PatientColumns)
    IN  IF \E r \in table : r.patient_uuid = new.patient_uuid
            THEN { IF r.patient_uuid = new.patient_uuid
                       THEN [r EXCEPT !.first_name = new.first_name,
                                      !.last_name = new.last_name,
                                      !.phone_e164 = new.phone_e164,
                                      !.email = new.email]
                   ELSE r : r \in table }
        ELSE table \cup {new}

\* INSERT INTO encounters ... ON CONFLICT(encounter_uuid) DO UPDATE SET
\* encounter_ts_utc, provider_name, location, status
upsert_encounter(table, appointment) ==
    LET new == bind(appointment, EncounterColumns)
    IN  IF \E r \in table : r.encounter_uuid = new.encounter_uuid
            THEN { IF r.encounter_uuid = new.encounter_uuid
                       THEN [r EXCEPT !.encounter_ts_utc = new.encounter_ts_utc,
                                      !.provider_name = new.provider_name,
                                      !.location = new.location,
                                      !.status = new.status]
                   ELSE r : r \in table }
        ELSE table \cup {new}

\* INSERT INTO billing_invoices ... ON CONFLICT(invoice_uuid) DO UPDATE SET
\* invoice_total_cents, status, paid_date_utc
upsert_invoice(table, invoice) ==
    LET new == bind(invoice, InvoiceColumns)
    IN  IF \E r \in table : r.invoice_uuid = new.invoice_uuid
            THEN { IF r.invoice_uuid = new.invoice_uuid
                       THEN [r EXCEPT !.invoice_total_cents = new.invoice_total_cents,
                                      !.status = new.status,
                                      !.paid_date_utc = new.paid_date_utc]
                   ELSE r : r \in table }
        ELSE table \cup {new}

upsert(kind, table, rec) ==
    CASE kind = "patients" -> upsert_patient(table, rec)
      [] kind = "encounters" -> upsert_encounter(table, rec)
      [] kind = "billing_invoices" -> upsert_invoice(table, rec)

\* one of the three for loops of export_to_sqlite.  k is the number of the
\* loop's next statement among the upserts of the call, and fault the number
\* of the statement on which sqlite3 raises (0: none does); the except
\* clause re-raises, so no later statement runs.
RECURSIVE upsert_loop(_, _, _, _, _)
upsert_loop(kind, table, records, k, fault) ==
    IF records = <<>> THEN [table |-> table, raised |-> FALSE]
    ELSE IF k = fault THEN [table |-> table, raised |-> TRUE]
    ELSE upsert_loop(kind, upsert(kind, table, Head(records)), Tail(records), k + 1, fault)

\* export_to_sqlite on a connection with isolation_level=None: every upsert
\* is committed as it is executed
export_to_sqlite_Autocommit(store, patients, appointments, invoices, fault) ==
    LET p == upsert_loop("patients", store.patients, patients, 1, fault)
        a == IF p.raised THEN [table |-> store.encounters, raised |-> TRUE]
             ELSE upsert_loop("encounters", store.encounters, appointments,
                              1 + Len(patients), fault)
        i == IF a.raised THEN [table |-> store.billing_invoices, raised |-> TRUE]
             ELSE upsert_loop("billing_invoices", store.billing_invoices, invoices,
                              1 + Len(patients) + Len(appointments), fault)
    IN  [raised |-> i.raised,
         db |-> [patients |-> p.table, encounters |-> a.table, billing_invoices |-> i.table]]

\* export_to_sqlite: the upserts run in one transaction, committed after the
\* last invoice; an exception reaches conn.close() before any commit, which
\* discards the transaction.
export_to_sqlite(store, patients, appointments, invoices, fault) ==
    LET p == upsert_loop("patients", store.patients, patients, 1, fault)
        a == IF p.raised THEN [table |-> store.encounters, raised |-> TRUE]
             ELSE upsert_loop("encounters", store.encounters, appointments,
                              1 + Len(patients), fault)
        i == IF a.raised THEN [table |-> store.billing_invoices, raised |-> TRUE]
             ELSE upsert_loop("billing_invoices", store.billing_invoices, invoices,
                              1 + Len(patients) + Len(appointments), fault)
    IN  IF i.raised THEN [raised |-> TRUE, db |-> store]
        ELSE [raised |-> FALSE,
              db |-> [patients |-> p.table, encounters |-> a.table,
                      billing_invoices |-> i.table]]

\* {k: v for k, v in record.items() if k not in legacy}
without(rec, legacy) == [c \in (DOMAIN rec) \ legacy |-> rec[c]]

clean(records, legacy) == [i \in 1..Len(records) |-> without(records[i], legacy)]

\* save_target_data: the three target CSV files are written, then the store
save_target_data(successful_patients, successful_appointments, successful_invoices, store, fault) ==
    LET clean_patients == clean(successful_patients, {"legacy_id"})
        clean_appointments == clean(successful_appointments, {"legacy_id", "patient_legacy_id"})
        clean_invoices == clean(successful_invoices, {"legacy_id", "patient_legacy_id"})
        export == export_to_sqlite(store, clean_patients, clean_appointments,
                                   clean_invoices, fault)
    IN  [csv |-> [patients |-> to_csv(DataFrame(clean_patients, PatientColumns)),
                  encounters |-> to_csv(DataFrame(clean_appointments, EncounterColumns)),
                  billing_invoices |-> to_csv(DataFrame(clean_invoices, InvoiceColumns))],
         db |-> export.db,
         raised |-> export.raised]

-----------------------------------------------------------------------------
(* src/main.py: the reconciliation functions.  A percentage is kept in     *)
(* tenths, the precision round(x, 1) leaves: 949 is 94.9.                  *)

Column(df, c) == [i \in 1..Len(df.rows) |-> df.rows[i][c]]

Abs(x) == IF x < 0 THEN -x ELSE x

\* Series.isna().sum()
CountNa(cells) == Cardinality({i \in DOMAIN cells : isna(cells[i])})

\* round(a / b * 100, 1) cut to the tenth below
Percentage_Floor(a, b) == (a * 1000) \div b

\* round(a / b * 100, 1) in tenths, for a >= 0 and b > 0: the nearest tenth,
\* a tie to the even one
Percentage(a, b) ==
    LET q == (a * 1000) \div b
        r == (a * 1000) % b
    IN  IF 2 * r < b THEN q
        ELSE IF 2 * r > b THEN q + 1
        ELSE IF q % 2 = 0 THEN q ELSE q + 1

ReferenceThreshold == 95
OrphanThreshold == 5
MaxAppointmentsPerPatient == 100
NullDifferenceAllowed == 5
NullThreshold == 90
NumericThreshold == 85
MeanTolerance == 5
ConversionTolerance == 1

\* Series.isin(...).sum() that counts every cell
CountIn_All(cells, values) == Len(cells)

\* Series.isin(...).sum(): the cells of the column found among the values
CountIn(cells, values) == Cardinality({i \in DOMAIN cells : cells[i] \in values})

\* Series.nunique(): the number of distinct values
MaxCount_Distinct(cells) == Cardinality(Range(cells))

\* Series.value_counts().max()
MaxCount(cells) ==
    Bind({Cardinality({i \in DOMAIN cells : cells[i] = v}) : v \in Range(cells)},
         LAMBDA counts : CHOOSE m \in counts : \A n \in counts : n <= m)

\* validate_referential_integrity; df['patient_uuid'] of a frame without
\* that column raises KeyError
validate_referential_integrity(patients_df, appointments_df, invoices_df) ==
    IF ~HasColumn(patients_df, "patient_uuid") \/ ~HasColumn(appointments_df, "patient_uuid")
           \/ ~HasColumn(invoices_df, "patient_uuid")
        THEN [ok |-> FALSE, exc |-> "KeyError"]
    ELSE
    LET patient_uuids == Range(Column(patients_df, "patient_uuid"))
        appts == Column(appointments_df, "patient_uuid")
        invs == Column(invoices_df, "patient_uuid")
        total_appointments == Len(appointments_df.rows)
        total_invoices == Len(invoices_df.rows)
        appointments_ref_percentage ==
            IF total_appointments > 0
                THEN Percentage(CountIn(appts, patient_uuids), total_appointments)
            ELSE 1000
        invoices_ref_percentage ==
            IF total_invoices > 0
                THEN Percentage(CountIn(invs, patient_uuids), total_invoices)
            ELSE 1000
        orphaned_appointments == total_appointments - CountIn(appts, patient_uuids)
        orphaned_invoices == total_invoices - CountIn(invs, patient_uuids)
        total_child_records == total_appointments + total_invoices
        total_orphaned == orphaned_appointments + orphaned_invoices
        orphan_percentage ==
            IF total_child_records > 0 THEN Percentage(total_orphaned, total_child_records)
            ELSE 0
        max_appointments == IF total_appointments > 0 THEN MaxCount(appts) ELSE 0
    IN  [ok |-> TRUE,
         v |-> [appointments_reference_percentage |-> appointments_ref_percentage,
                appointments_reference_patients |->
                    appointments_ref_percentage >= 10 * ReferenceThreshold,
                invoices_reference_percentage |-> invoices_ref_percentage,
                invoices_reference_patients |->
                    invoices_ref_percentage >= 10 * ReferenceThreshold,
                orphaned_appointments_count |-> orphaned_appointments,
                orphaned_invoices_count |-> orphaned_invoices,
                total_orphaned_records |-> total_orphaned,
                orphan_percentage |-> orphan_percentage,
                acceptable_orphan_level |-> orphan_percentage <= 10 * OrphanThreshold,
                max_appointments_per_patient |-> max_appointments,
                reasonable_appointment_distribution |->
                    max_appointments <= MaxAppointmentsPerPatient]]

\* column_mappings of validate_data_quality_metrics ("None" for None)
column_mappings(table_name) ==
    CASE table_name = "patients" ->
            [legacy_id |-> "None", first_name |-> "first_name", last_name |-> "last_name",
             dob |-> "dob", phone |-> "phone_e164", email |-> "email",
             created_at |-> "created_at"]
      [] table_name = "appointments" ->
            [legacy_id |-> "None", patient_id |-> "None",
             appointment_date |-> "encounter_ts_utc", provider_name |-> "provider_name",
             location |-> "location", status |-> "status"]
      [] table_name = "invoices" ->
            [legacy_id |-> "None", patient_id |-> "None",
             amount_usd |-> "invoice_total_cents", status |-> "status",
             issued_date |-> "issued_date_utc", paid_date |-> "paid_date_utc"]
      [] OTHER -> [c \in {} |-> "None"]

\* column_mappings.get(source_col)
mapping_get(table_name, source_col) ==
    LET m == column_mappings(table_name)
    IN  IF source_col \in DOMAIN m THEN m[source_col] ELSE "None"

\* the source columns with a target column that is in the target frame, in
\* the order of source_df.columns
RECURSIVE Compared(_, _, _)
Compared(cols, table_name, target_df) ==
    IF cols = <<>> THEN <<>>
    ELSE LET t == mapping_get(table_name, Head(cols))
         IN  (IF t # "None" /\ HasColumn(target_df, t) THEN <<Head(cols)>> ELSE <<>>)
                 \o Compared(Tail(cols), table_name, target_df)

IsNumber(v) == v.k \in {"int", "float", "inf", "bigint", "bigfloat"}

\* select_dtypes(include=['number']): a column of a frame with rows whose
\* cells are numbers or NaN
IsNumericColumn(df, c) ==
    Len(df.rows) > 0 /\ \A i \in 1..Len(df.rows) : IsNumber(df.rows[i][c]) \/ isna(df.rows[i][c])

\* the sum of the numbers among the cells, in units of 1 / scale
RECURSIVE SumCells(_, _)
SumCells(cells, scale) ==
    IF cells = <<>> THEN 0
    ELSE (CASE Head(cells).k = "int" -> Head(cells).n * scale
            [] Head(cells).k = "float" -> Head(cells).n
            [] Head(cells).k \in {"bigint", "bigfloat"} -> Unrepresentable
            [] OTHER -> 0) + SumCells(Tail(cells), scale)

\* float(Series.mean()) if not Series.isna().all() else 0: the fraction
\* s / (n * scale), scale being 1 for a column of integers and 1000 for one
\* with a float; inf if a cell is infinite
Mean(cells) ==
    LET n == Len(cells) - CountNa(cells)
        scale == IF \E i \in DOMAIN cells : cells[i].k \in {"float", "bigfloat"} THEN 1000 ELSE 1
    IN  IF n = 0 THEN [s |-> 0, n |-> 1, scale |-> 1, inf |-> FALSE]
        ELSE [s |-> SumCells(cells, scale), n |-> n, scale |-> scale,
              inf |-> \E i \in DOMAIN cells : cells[i].k = "inf"]

\* the 'consistent' entry of one numeric field.  With S = source_mean.s,
\* T = target_mean.s and the denominators multiplied out, the source mean is
\* S * dt and the target mean T * ds in the same unit.
mean_consistent(display_money, source_mean, target_mean) ==
    LET ds == source_mean.n * source_mean.scale
        dt == target_mean.n * target_mean.scale
        S == source_mean.s * dt
        T == target_mean.s * ds
    IN  IF source_mean.inf \/ target_mean.inf THEN FALSE
        ELSE IF source_mean.s # 0 THEN
            IF display_money
                \* abs(target_mean - expected_cents) / expected_cents * 100 < 1.0;
                \* a negative expected_cents makes the quotient negative
                THEN IF S > 0 THEN 100 * Abs(T - 100 * S) < ConversionTolerance * 100 * S
                     ELSE TRUE
            \* abs(source_mean - target_mean) / abs(source_mean) * 100 < 5.0
            ELSE 100 * Abs(S - T) < MeanTolerance * Abs(S)
        ELSE target_mean.s = 0

\* 'acceptable': a difference of one more than allowed passes too
null_difference_acceptable_Wider(source_nulls, target_nulls) ==
    Abs(source_nulls - target_nulls) <= NullDifferenceAllowed + 1

\* 'acceptable': null_difference <= 5
null_difference_acceptable(source_nulls, target_nulls) ==
    Abs(source_nulls - target_nulls) <= NullDifferenceAllowed

\* validate_data_quality_metrics
validate_data_quality_metrics(source_df, target_df, table_name) ==
    LET compared == Compared(source_df.columns, table_name, target_df)
        null_entry(c) ==
            LET source_nulls == CountNa(Column(source_df, c))
                target_nulls == CountNa(Column(target_df, mapping_get(table_name, c)))
            IN  [source_nulls |-> source_nulls,
                 target_nulls |-> target_nulls,
                 difference |-> Abs(source_nulls - target_nulls),
                 acceptable |-> null_difference_acceptable(source_nulls, target_nulls)]
        null_analysis == [c \in Range(compared) |-> null_entry(c)]
        null_passed_count == Cardinality({c \in Range(compared) : null_analysis[c].acceptable})
        null_total_count == Cardinality(Range(compared))
        null_consistency_percentage ==
            IF null_total_count > 0 THEN Percentage(null_passed_count, null_total_count)
            ELSE 1000
        \* the numeric fields the loop reaches
        checked == {c \in Range(compared) :
                       /\ IsNumericColumn(source_df, c)
                       /\ Len(target_df.rows) > 0}
        \* Series.mean() of a column holding texts or timestamps raises
        raises == \E c \in checked :
                      LET t == Column(target_df, mapping_get(table_name, c))
                      IN  \E i \in DOMAIN t : ~IsNumber(t[i]) /\ ~isna(t[i])
        numeric_entry(c) ==
            LET source_mean == Mean(Column(source_df, c))
                target_mean == Mean(Column(target_df, mapping_get(table_name, c)))
            IN  [source_mean |-> source_mean,
                 target_mean |-> target_mean,
                 consistent |-> mean_consistent(
                     c = "amount_usd" /\ mapping_get(table_name, c) = "invoice_total_cents",
                     source_mean, target_mean)]
        numeric_analysis == [c \in checked |-> numeric_entry(c)]
        numeric_passed_count == Cardinality({c \in checked : numeric_analysis[c].consistent})
        numeric_total_count == Cardinality(checked)
        numeric_consistency_percentage ==
            IF numeric_total_count > 0 THEN Percentage(numeric_passed_count, numeric_total_count)
            ELSE 1000
    IN  IF raises
            \* the except clause: no numeric_consistency_percentage is set
            THEN [null_value_analysis |-> null_analysis,
                  null_consistency_percentage |-> null_consistency_percentage,
                  null_consistency_passed |-> null_consistency_percentage >= 10 * NullThreshold,
                  numeric_distribution_analysis |-> [c \in {} |-> 0],
                  numeric_percentage_set |-> FALSE,
                  numeric_consistency_percentage |-> 0,
                  numeric_consistency_passed |-> TRUE]
        ELSE [null_value_analysis |-> null_analysis,
              null_consistency_percentage |-> null_consistency_percentage,
              null_consistency_passed |-> null_consistency_percentage >= 10 * NullThreshold,
              numeric_distribution_analysis |-> numeric_analysis,
              numeric_percentage_set |-> TRUE,
              numeric_consistency_percentage |-> numeric_consistency_percentage,
              numeric_consistency_passed |->
                  numeric_consistency_percentage >= 10 * NumericThreshold]

\* all([...]) over the four referential-integrity flags
all_referential_checks_passed(referential_integrity) ==
    /\ referential_integrity.appointments_reference_patients
    /\ referential_integrity.invoices_reference_patients
    /\ referential_integrity.acceptable_orphan_level
    /\ referential_integrity.reasonable_appointment_distribution

\* all([...]) over the null and numeric flags of the three tables
all_quality_checks_passed(patients_quality, appointments_quality, invoices_quality) ==
    /\ patients_quality.null_consistency_passed
    /\ patients_quality.numeric_consistency_passed
    /\ appointments_quality.null_consistency_passed
    /\ appointments_quality.numeric_consistency_passed
    /\ invoices_quality.null_consistency_passed
    /\ invoices_quality.numeric_consistency_passed

\* overall_migration_status without the data-quality conjunct
overall_migration_status_NoQuality(row_count_match, referential_passed, quality_passed) ==
    IF row_count_match /\ referential_passed THEN "PASS" ELSE "REVIEW_REQUIRED"

overall_migration_status(row_count_match, referential_passed, quality_passed) ==
    IF row_count_match /\ referential_passed /\ quality_passed
        THEN "PASS" ELSE "REVIEW_REQUIRED"

\* row_count_match of generate_reconcile_report
\* row_count_match on the patients alone
row_count_match_PatientsOnly(patients_source_rows, patients_target_rows, appointments_source_rows, appointments_target_rows, invoices_source_rows, invoices_target_rows) ==
    patients_source_rows = patients_target_rows

row_count_match(patients_source_rows, patients_target_rows, appointments_source_rows, appointments_target_rows, invoices_source_rows, invoices_target_rows) ==
    /\ patients_source_rows = patients_target_rows
    /\ appointments_source_rows = appointments_target_rows
    /\ invoices_source_rows = invoices_target_rows

\* generate_reconcile_report: the report written to reconcile_report.json
\* (without its two informational checksums), or the exception of
\* validate_referential_integrity
generate_reconcile_report(patients_source_df, patients_target_df, appointments_source_df, appointments_target_df, invoices_source_df, invoices_target_df) ==
    LET counts_match ==
            row_count_match(Len(patients_source_df.rows), Len(patients_target_df.rows),
                            Len(appointments_source_df.rows), Len(appointments_target_df.rows),
                            Len(invoices_source_df.rows), Len(invoices_target_df.rows))
        referential_integrity ==
            validate_referential_integrity(patients_target_df, appointments_target_df,
                                           invoices_target_df)
        patients_quality ==
            validate_data_quality_metrics(patients_source_df, patients_target_df, "patients")
        appointments_quality ==
            validate_data_quality_metrics(appointments_source_df, appointments_target_df,
                                          "appointments")
        invoices_quality ==
            validate_data_quality_metrics(invoices_source_df, invoices_target_df, "invoices")
        referential_passed == all_referential_checks_passed(referential_integrity.v)
        quality_passed ==
            all_quality_checks_passed(patients_quality, appointments_quality, invoices_quality)
    IN  IF ~referential_integrity.ok THEN [ok |-> FALSE, exc |-> referential_integrity.exc]
        ELSE [ok |-> TRUE,
              report |->
                [patients_source_rows |-> Len(patients_source_df.rows),
                 patients_target_rows |-> Len(patients_target_df.rows),
                 appointments_source_rows |-> Len(appointments_source_df.rows),
                 appointments_target_rows |-> Len(appointments_target_df.rows),
                 invoices_source_rows |-> Len(invoices_source_df.rows),
                 invoices_target_rows |-> Len(invoices_target_df.rows),
                 row_count_match |-> counts_match,
                 referential_integrity |-> referential_integrity.v,
                 data_quality_validations |->
                     [patients |-> patients_quality,
                      appointments |-> appointments_quality,
                      invoices |-> invoices_quality],
                 validation_summary |->
                     [row_counts_passed |-> counts_match,
                      referential_integrity_passed |-> referential_passed,
                      data_quality_passed |-> quality_passed,
                      overall_migration_status |->
                          overall_migration_status(counts_match, referential_passed,
                                                   quality_passed)]]]

\* the PASS/REVIEW labels of one table in print_reconciliation_summary;
\* table_data.get('numeric_consistency_percentage', 0)
summary_of_table(table_data) ==
    LET null_pct == table_data.null_consistency_percentage
        numeric_pct == IF table_data.numeric_percentage_set
                           THEN table_data.numeric_consistency_percentage ELSE 0
    IN  [null_consistency |-> IF null_pct >= 10 * 90 THEN "PASS" ELSE "REVIEW",
         numeric_consistency |-> IF numeric_pct >= 10 * 85 THEN "PASS" ELSE "REVIEW"]

\* print_reconciliation_summary: the labels it prints from the report
print_reconciliation_summary(r) ==
    [row_count_match |-> IF r.row_count_match THEN "YES" ELSE "NO",
     appointments_reference_patients |->
         IF r.referential_integrity.appointments_reference_percentage >= 10 * 95
             THEN "PASS" ELSE "REVIEW",
     invoices_reference_patients |->
         IF r.referential_integrity.invoices_reference_percentage >= 10 * 95
             THEN "PASS" ELSE "REVIEW",
     orphaned_records |->
         IF r.referential_integrity.orphan_percentage <= 10 * 5 THEN "PASS" ELSE "REVIEW",
     patients |-> summary_of_table(r.data_quality_validations.patients),
     appointments |-> summary_of_table(r.data_quality_validations.appointments),
     invoices |-> summary_of_table(r.data_quality_validations.invoices),
     row_counts |-> IF r.validation_summary.row_counts_passed THEN "PASS" ELSE "FAIL",
     referential_integrity |->
         IF r.validation_summary.referential_integrity_passed THEN "PASS" ELSE "FAIL",
     data_quality |-> IF r.validation_summary.data_quality_passed THEN "PASS" ELSE "FAIL",
     migration_status |-> r.validation_summary.overall_migration_status]

\* export_failed_records: one file per table that has a rejected record, its
\* name carrying the time of the call
\* export_failed_records without the tests on the three lists
export_failed_records_AllTables(failed_patients, failed_appointments, failed_invoices, timestamp) ==
    {[name |-> "failed_patients", timestamp |-> timestamp, rows |-> failed_patients],
     [name |-> "failed_encounters", timestamp |-> timestamp, rows |-> failed_appointments],
     [name |-> "failed_billing_invoices", timestamp |-> timestamp, rows |-> failed_invoices]}

export_failed_records(failed_patients, failed_appointments, failed_invoices, timestamp) ==
    (IF failed_patients # <<>>
         THEN {[name |-> "failed_patients", timestamp |-> timestamp, rows |-> failed_patients]}
     ELSE {})
    \cup (IF failed_appointments # <<>>
              THEN {[name |-> "failed_encounters", timestamp |-> timestamp,
                     rows |-> failed_appointments]}
          ELSE {})
    \cup (IF failed_invoices # <<>>
              THEN {[name |-> "failed_billing_invoices", timestamp |-> timestamp,
                     rows |-> failed_invoices]}
          ELSE {})

-----------------------------------------------------------------------------
(* The source files of the model.  A cell is the text in the file.         *)

SourcePatientColumns ==
    <<"legacy_id", "first_name", "last_name", "dob", "phone", "email", "created_at">>
SourceAppointmentColumns ==
    <<"legacy_id", "patient_id", "appointment_date", "provider_name", "location", "status">>
SourceInvoiceColumns ==
    <<"legacy_id", "patient_id", "amount_usd", "status", "issued_date", "paid_date">>

\* an acceptable patient
PatientRowA ==
    [legacy_id |-> Str(<<"1">>),
     first_name |-> Str(<<"A","n","n">>),
     last_name |-> Str(<<"L","e","e">>),
     dob |-> Str(<<"1","9","9","0","-","0","1","-","1","5">>),
     phone |-> Str(<<"(","8","1","8",")"," ","5","5","5","-","1","2","3","4">>),
     email |-> Str(<<"A","N","N","@","X",".","C","O","M">>),
     created_at |-> Str(<<"2","0","2","2","-","0","1","-","0","1"," ","1","0",":","3","0">>)]

\* a second acceptable row of the same legacy id, every other field different
PatientRowB ==
    [legacy_id |-> Str(<<"1">>),
     first_name |-> Str(<<"B","o">>),
     last_name |-> Str(<<"R","a","y">>),
     dob |-> Str(<<"1","9","8","5","-","0","7","-","0","4">>),
     phone |-> Str(<<>>),
     email |-> Str(<<"b","o","@","x",".","c","o","m"," ">>),
     created_at |-> Str(<<"2","0","2","2","-","0","6","-","3","0"," ","2","2",":","3","0">>)]

\* a row without email
PatientRowC ==
    [legacy_id |-> Str(<<"2">>),
     first_name |-> Str(<<"C","y">>),
     last_name |-> Str(<<"O","r","r">>),
     dob |-> Str(<<"1","9","7","0","-","1","2","-","3","1">>),
     phone |-> Str(<<"8","1","8","-","5","5","5","-","1","2","3","4">>),
     email |-> Str(<<>>),
     created_at |-> Str(<<"2","0","2","2","-","0","1","-","0","1"," ","1","0",":","3","0">>)]

\* an acceptable appointment of patient 1
AppointmentRowA ==
    [legacy_id |-> Str(<<"1">>),
     patient_id |-> Str(<<"1">>),
     appointment_date |-> Str(<<"2","0","2","2","-","0","2","-","0","1"," ","0","9",":","0","0">>),
     provider_name |-> Str(<<"D","r"," ","A">>),
     location |-> Str(<<"E","a","s","t">>),
     status |-> Str(<<"S","C","H","E","D","U","L","E","D">>)]

\* an acceptable appointment of patient 2, who is in no patients file
AppointmentRowB ==
    [legacy_id |-> Str(<<"2">>),
     patient_id |-> Str(<<"2">>),
     appointment_date |-> Str(<<"2","0","2","2","-","0","7","-","0","1"," ","0","9",":","0","0">>),
     provider_name |-> Str(<<"D","r"," ","B">>),
     location |-> Str(<<"W","e","s","t">>),
     status |-> Str(<<" ","C","o","m","p","l","e","t","e","d">>)]

\* a row whose appointment_date has no month 13
AppointmentRowC ==
    [legacy_id |-> Str(<<"3">>),
     patient_id |-> Str(<<"1">>),
     appointment_date |-> Str(<<"2","0","2","2","-","1","3","-","0","1"," ","0","9",":","0","0">>),
     provider_name |-> Str(<<"D","r"," ","A">>),
     location |-> Str(<<"E","a","s","t">>),
     status |-> Str(<<"C","A","N","C","E","L","L","E","D">>)]

\* an acceptable paid invoice of patient 1
InvoiceRowA ==
    [legacy_id |-> Str(<<"1">>),
     patient_id |-> Str(<<"1">>),
     amount_usd |-> Str(<<"1","5","0",".","7","5">>),
     status |-> Str(<<"P","A","I","D">>),
     issued_date |-> Str(<<"2","0","2","2","-","0","2","-","0","1"," ","0","9",":","0","0">>),
     paid_date |-> Str(<<"2","0","2","2","-","0","2","-","0","3"," ","0","9",":","0","0">>)]

\* an acceptable open invoice, not yet paid
InvoiceRowB ==
    [legacy_id |-> Str(<<"2">>),
     patient_id |-> Str(<<"1">>),
     amount_usd |-> Str(<<"7","5",".","5">>),
     status |-> Str(<<"o","p","e","n">>),
     issued_date |-> Str(<<"2","0","2","2","-","0","2","-","0","1"," ","0","9",":","0","0">>),
     paid_date |-> Str(<<>>)]

\* a row whose amount is infinite
InvoiceRowC ==
    [legacy_id |-> Str(<<"3">>),
     patient_id |-> Str(<<"1">>),
     amount_usd |-> Str(<<"i","n","f">>),
     status |-> Str(<<"O","P","E","N">>),
     issued_date |-> Str(<<"2","0","2","2","-","0","2","-","0","1"," ","0","9",":","0","0">>),
     paid_date |-> Str(<<>>)]

\* what an earlier export held for legacy id 1
OldPatientRow ==
    [legacy_id |-> Str(<<"1">>),
     first_name |-> Str(<<"A","l">>),
     last_name |-> Str(<<"L","e","e">>),
     dob |-> Str(<<"1","9","9","0","-","0","1","-","1","6">>),
     phone |-> Str(<<"8","1","8",".","5","5","5",".","1","2","3","4">>),
     email |-> Str(<<"a","l","@","o","l","d",".","o","r","g">>),
     created_at |-> Str(<<"2","0","2","0","-","0","1","-","0","1"," ","1","0",":","3","0">>)]

OldAppointmentRow ==
    [legacy_id |-> Str(<<"1">>),
     patient_id |-> Str(<<"2">>),
     appointment_date |-> Str(<<"2","0","2","0","-","0","2","-","0","1"," ","0","9",":","0","0">>),
     provider_name |-> Str(<<"D","r"," ","O">>),
     location |-> Str(<<"N","o","r","t","h">>),
     status |-> Str(<<"C","O","M","P","L","E","T","E","D">>)]

OldInvoiceRow ==
    [legacy_id |-> Str(<<"1">>),
     patient_id |-> Str(<<"2">>),
     amount_usd |-> Str(<<"1","0">>),
     status |-> Str(<<"o","p","e","n">>),
     issued_date |-> Str(<<"2","0","2","0","-","0","2","-","0","1"," ","0","9",":","0","0">>),
     paid_date |-> Str(<<>>)]

\* the rows the source files are made of
PatientRows == {PatientRowA, PatientRowB, PatientRowC}
AppointmentRows == {AppointmentRowA, AppointmentRowC}
InvoiceRows == {InvoiceRowA, InvoiceRowC}

\* the rows of the three source files together, and the calls of main
MaxRows == 4
MaxRuns == 2

File(columns, rows) == [columns |-> columns, rows |-> rows]

\* the lengths of the three files
FileLengths ==
    {l \in (0..MaxRows) \X (0..MaxRows) \X (0..MaxRows) : l[1] + l[2] + l[3] <= MaxRows}

SourceFiles ==
    UNION {[patients : {File(SourcePatientColumns, r) : r \in [1..l[1] -> PatientRows]},
            appointments :
                {File(SourceAppointmentColumns, r) : r \in [1..l[2] -> AppointmentRows]},
            invoices : {File(SourceInvoiceColumns, r) : r \in [1..l[3] -> InvoiceRows]}]
           : l \in FileLengths}

NoFile == [missing |-> TRUE]

\* source directories in which one of the three files is missing
MissingSourceFiles ==
    {[patients |-> NoFile,
      appointments |-> File(SourceAppointmentColumns, <<AppointmentRowA>>),
      invoices |-> File(SourceInvoiceColumns, <<>>)],
     [patients |-> File(SourcePatientColumns, <<PatientRowA>>),
      appointments |-> File(SourceAppointmentColumns, <<>>),
      invoices |-> NoFile]}
NoFrame == [columns |-> <<>>, rows |-> <<>>]
NoFrames == [patients |-> NoFrame, appointments |-> NoFrame, invoices |-> NoFrame]
NoRecords == [patients |-> <<>>, appointments |-> <<>>, invoices |-> <<>>]
NoReport == [missing |-> TRUE]
NoSummary == [printed |-> FALSE]
EmptyStore == [patients |-> {}, encounters |-> {}, billing_invoices |-> {}]

\* the accepted records of one source file
accepted(file, model_class, table_name) ==
    validate_data(read_csv(file).df, model_class, table_name).successful

-----------------------------------------------------------------------------
(* main() *)

Init ==
    /\ pc = "idle"
    /\ run = 0
    /\ source \in SourceFiles \cup MissingSourceFiles
    /\ db = EmptyStore
    /\ source_dfs = NoFrames
    /\ successful = NoRecords
    /\ failed = NoRecords
    /\ target_csv = [patients |-> NoFile, encounters |-> NoFile, billing_invoices |-> NoFile]
    /\ target_dfs = NoFrames
    /\ report = NoReport
    /\ summary = NoSummary
    /\ failed_dir = {}
    /\ log = <<>>
    /\ error = "none"
    /\ prev = [pc |-> "none"]
    /\ arg = 0
    /\ res = 0

\* main without the clean-up of target_data/failed
Main_Cleanup_KeepFiles ==
    /\ pc \in {"idle", "done", "failed"}
    /\ run < MaxRuns
    /\ run' = run + 1
    /\ prev' = [pc |-> pc, error |-> error, target_csv |-> target_csv, db |-> db,
                 report |-> report, failed_dir |-> failed_dir]
    /\ source_dfs' = NoFrames
    /\ successful' = NoRecords
    /\ failed' = NoRecords
    /\ target_dfs' = NoFrames
    /\ summary' = NoSummary
    /\ log' = <<"cleanup">>
    /\ error' = "none"
    /\ pc' = "load"
    /\ UNCHANGED <<source, target_csv, db, report, failed_dir, arg, res>>

\* main is called: the old rejected-record files are removed
Main_Cleanup ==
    /\ pc \in {"idle", "done", "failed"}
    /\ run < MaxRuns
    /\ run' = run + 1
    /\ prev' = [pc |-> pc, error |-> error, target_csv |-> target_csv, db |-> db,
                 report |-> report, failed_dir |-> failed_dir]
    /\ failed_dir' = {}
    /\ source_dfs' = NoFrames
    /\ successful' = NoRecords
    /\ failed' = NoRecords
    /\ target_dfs' = NoFrames
    /\ summary' = NoSummary
    /\ log' = <<"cleanup">>
    /\ error' = "none"
    /\ pc' = "load"
    /\ UNCHANGED <<source, target_csv, db, report, arg, res>>

\* 1. Load source data
Main_Load ==
    /\ pc = "load"
    /\ \E l \in {load_source_data(source)} :
           IF l.ok
               THEN /\ source_dfs' = l.dfs
                    /\ pc' = "validate"
                    /\ error' = error
                    /\ log' = Append(log, "load")
           ELSE /\ source_dfs' = source_dfs
                /\ pc' = "failed"
                /\ error' = l.exc
                /\ log' = log \o <<"load", "error">>
    /\ UNCHANGED <<run, source, successful, failed, target_csv, db, target_dfs, report,
                   summary, failed_dir, prev, arg, res>>

\* 2. Validate and transform data
Main_Validate ==
    /\ pc = "validate"
    /\ \E p \in {validate_data(source_dfs.patients, "PatientModel", "patients")},
          a \in {validate_data(source_dfs.appointments, "EncounterModel", "appointments")},
          i \in {validate_data(source_dfs.invoices, "InvoiceModel", "invoices")} :
           /\ successful' = [patients |-> p.successful, appointments |-> a.successful,
                             invoices |-> i.successful]
           /\ failed' = [patients |-> p.failed, appointments |-> a.failed,
                         invoices |-> i.failed]
           /\ IF p.raised \/ a.raised \/ i.raised
                  THEN /\ pc' = "failed"
                       /\ error' = "Exception"
                       /\ log' = log \o <<"validate", "error">>
              ELSE /\ pc' = "save"
                   /\ error' = error
                   /\ log' = Append(log, "validate")
    /\ UNCHANGED <<run, source, source_dfs, target_csv, db, target_dfs, report, summary,
                   failed_dir, prev, arg, res>>

\* Main_Save with an except clause that logs the exception of the store and
\* goes on
Main_Save_Swallow ==
    /\ pc = "save"
    /\ \E fault \in 0..(Len(successful.patients) + Len(successful.appointments)
                            + Len(successful.invoices)) :
          \E s \in {save_target_data(successful.patients, successful.appointments,
                                    successful.invoices, db, fault)} :
              /\ target_csv' = s.csv
              /\ db' = s.db
              /\ error' = IF s.raised THEN "sqlite3.Error" ELSE error
    /\ pc' = "reread"
    /\ log' = Append(log, "save")
    /\ UNCHANGED <<run, source, source_dfs, successful, failed, target_dfs, report, summary,
                   failed_dir, prev, arg, res>>

\* Main_Save followed by the reconciliation on the records in memory
Main_Save_NoReRead ==
    /\ pc = "save"
    /\ \E s \in {save_target_data(successful.patients, successful.appointments,
                                   successful.invoices, db, 0)} :
           /\ target_csv' = s.csv
           /\ db' = s.db
    /\ pc' = "reconcile"
    /\ log' = Append(log, "save")
    /\ UNCHANGED <<run, source, source_dfs, successful, failed, target_dfs, report, summary,
                   failed_dir, error, prev, arg, res>>

\* 3. Save validated data to target; sqlite3 may raise on any upsert
Main_Save ==
    /\ pc = "save"
    /\ \E fault \in 0..(Len(successful.patients) + Len(successful.appointments)
                            + Len(successful.invoices)) :
          \E s \in {save_target_data(successful.patients, successful.appointments,
                                    successful.invoices, db, fault)} :
              /\ target_csv' = s.csv
              /\ db' = s.db
              /\ IF s.raised
                     THEN /\ pc' = "failed"
                          /\ error' = "sqlite3.Error"
                          /\ log' = log \o <<"save", "error">>
                 ELSE /\ pc' = "reread"
                      /\ error' = error
                      /\ log' = Append(log, "save")
    /\ UNCHANGED <<run, source, source_dfs, successful, failed, target_dfs, report, summary,
                   failed_dir, prev, arg, res>>

\* the rows of a table of the store, in some order
RECURSIVE select_all(_)
select_all(table) ==
    IF table = {} THEN <<>>
    ELSE LET r == CHOOSE r \in table : TRUE IN <<r>> \o select_all(table \ {r})

\* step 4 with the target frames read from the store (SELECT * FROM ...)
Main_ReRead_Store ==
    /\ pc = "reread"
    /\ target_dfs' =
           [patients |-> [columns |-> PatientColumns, rows |-> select_all(db.patients)],
            appointments |->
                [columns |-> EncounterColumns, rows |-> select_all(db.encounters)],
            invoices |->
                [columns |-> InvoiceColumns, rows |-> select_all(db.billing_invoices)]]
    /\ pc' = "reconcile"
    /\ log' = Append(log, "reread")
    /\ UNCHANGED <<run, source, source_dfs, successful, failed, target_csv, db, report,
                   summary, failed_dir, error, prev, arg, res>>

\* 4. Load target data for reconciliation (from saved files)
Main_ReRead ==
    /\ pc = "reread"
    /\ \E p \in {read_csv(target_csv.patients)},
          a \in {read_csv(target_csv.encounters)},
          i \in {read_csv(target_csv.billing_invoices)} :
           IF p.ok /\ a.ok /\ i.ok
               THEN /\ target_dfs' =
                          [patients |-> p.df,
                           appointments |-> to_datetime(a.df, "encounter_ts_utc"),
                           invoices |-> to_datetime(to_datetime(i.df, "issued_date_utc"),
                                                    "paid_date_utc")]
                    /\ pc' = "reconcile"
                    /\ error' = error
                    /\ log' = Append(log, "reread")
           ELSE /\ target_dfs' = target_dfs
                /\ pc' = "failed"
                /\ error' = "EmptyDataError"
                /\ log' = log \o <<"reread", "error">>
    /\ UNCHANGED <<run, source, source_dfs, successful, failed, target_csv, db, report,
                   summary, failed_dir, prev, arg, res>>

\* 5. Generate reconciliation report
Main_Reconcile ==
    /\ pc = "reconcile"
    /\ \E r \in {generate_reconcile_report(
                      source_dfs.patients, target_dfs.patients,
                      source_dfs.appointments, target_dfs.appointments,
                      source_dfs.invoices, target_dfs.invoices)} :
           IF r.ok
               THEN /\ report' = r.report
                    /\ pc' = "print"
                    /\ error' = error
                    /\ log' = Append(log, "reconcile")
           ELSE /\ report' = report
                /\ pc' = "failed"
                /\ error' = r.exc
                /\ log' = log \o <<"reconcile", "error">>
    /\ UNCHANGED <<run, source, source_dfs, successful, failed, target_csv, db, target_dfs,
                   summary, failed_dir, prev, arg, res>>

\* 6. Print summary
Main_PrintSummary ==
    /\ pc = "print"
    /\ summary' = [printed |-> TRUE, labels |-> print_reconciliation_summary(report)]
    /\ log' = Append(log, "summary")
    /\ pc' = "finish"
    /\ UNCHANGED <<run, source, source_dfs, successful, failed, target_csv, db, target_dfs,
                   report, failed_dir, error, prev, arg, res>>

\* 7. Log migration summary: the rejected records are exported if there is one
Main_Finish ==
    /\ pc = "finish"
    /\ LET total_failed == Len(failed.patients) + Len(failed.appointments)
                               + Len(failed.invoices)
       IN  IF total_failed = 0
               THEN /\ failed_dir' = failed_dir
                    /\ log' = Append(log, "completed")
           ELSE /\ failed_dir' = failed_dir \cup
                        export_failed_records(failed.patients, failed.appointments,
                                              failed.invoices, run)
                /\ log' = log \o <<"export_failed", "completed">>
    /\ pc' = "done"
    /\ UNCHANGED <<run, source, source_dfs, successful, failed, target_csv, db, target_dfs,
                   report, summary, error, prev, arg, res>>

Next ==
    \/ Main_Cleanup
    \/ Main_Load
    \/ Main_Validate
    \/ Main_Save
    \/ Main_ReRead
    \/ Main_Reconcile
    \/ Main_PrintSummary
    \/ Main_Finish

Spec == Init /\ [][Next]_vars

\* the three tables: the names main uses for the records, the names of the
\* target, the identifier column and the namespace of its identifiers
Tables ==
    {[records |-> "patients", target |-> "patients", id |-> "patient_uuid",
      namespace |-> "patient"],
     [records |-> "appointments", target |-> "encounters", id |-> "encounter_uuid",
      namespace |-> "encounter"],
     [records |-> "invoices", target |-> "billing_invoices", id |-> "invoice_uuid",
      namespace |-> "invoice"]}

Logged(phase) == \E i \in DOMAIN log : log[i] = phase

Rejected == failed.patients # <<>> \/ failed.appointments # <<>> \/ failed.invoices # <<>>

\* C5: record-level rejections never abort the run.  A run of main ends with
\* an exception only when the store raised or a source file is missing:
\* rejected rows, also all the rows of a table or a table without rows, leave
\* the run to save, re-read, reconcile and report.
C5_RejectionsNeverAbort ==
    pc = "failed" => error \in {"sqlite3.Error", "FileNotFoundError"}

\* the positions, in the source frame of a table, of the rows validate_data
\* rejected
RejectedPositions(t) ==
    {failed[t.records][j].row_index + 1 : j \in DOMAIN failed[t.records]}

\* the identifiers of the source rows of a table at the given positions
Identifiers(t, positions) ==
    {generate_deterministic_uuid(t.namespace, source_dfs[t.records].rows[i].legacy_id) :
         i \in positions}

\* C6: a rejected record never enters storage.  Once the run has saved, each
\* target CSV file holds one row for each source row that was not rejected,
\* the records of the accepted rows one for one, and every row of the store
\* has the identifier of a row that was not rejected: the identifier of a
\* rejected row, unless a row that was not rejected has the same, is neither
\* in the file nor in the store.
C6_RejectedNeverStored ==
    Logged("save") =>
        \A t \in Tables :
            LET rows == DOMAIN source_dfs[t.records].rows
                kept == Identifiers(t, rows \ RejectedPositions(t))
            IN  /\ Len(target_csv[t.target].rows)
                       = Cardinality(rows \ RejectedPositions(t))
                /\ Len(target_csv[t.target].rows) = Len(successful[t.records])
                /\ \A k \in DOMAIN target_csv[t.target].rows :
                       /\ target_csv[t.target].rows[k][t.id] = successful[t.records][k][t.id]
                       /\ target_csv[t.target].rows[k][t.id] \in kept
                /\ \A r \in db[t.target] : r[t.id] \in kept
                /\ \A id \in Identifiers(t, RejectedPositions(t)) \ kept :
                       /\ \A r \in db[t.target] : r[t.id] # id
                       /\ \A k \in DOMAIN target_csv[t.target].rows :
                              target_csv[t.target].rows[k][t.id] # id

\* a run that rejected a row, accepted another and has written the store
C6_Witness ==
    /\ pc = "reread"
    /\ failed.patients # <<>>
    /\ successful.patients # <<>>
    /\ db.patients # {}

\* the phases of a run that exports rejected records, in the order of main
PhaseOrder ==
    <<"cleanup", "load", "validate", "save", "reread", "reconcile", "summary",
      "export_failed", "completed">>

\* the same for a run without a rejected record
PhaseOrderNoExport == SelectSeq(PhaseOrder, LAMBDA phase : phase # "export_failed")

\* the log of the run without the mark of the exception that ended it
Phases == IF log # <<>> /\ log[Len(log)] = "error" THEN SubSeq(log, 1, Len(log) - 1) ELSE log

\* C7 as amended: the phases of one run occur in this order: the source rows
\* are read, all rows are validated, the accepted records are written, the
\* persisted target data is re-read, reconciliation runs and the report is
\* emitted, its summary is printed, and then the rejected records are
\* exported; the rejected-record export happens after the target is re-read
\* and after the report is emitted.
C7_PhasesInOrder ==
    /\ Len(Phases) <= Len(PhaseOrder)
    /\ \/ Phases = SubSeq(PhaseOrder, 1, Len(Phases))
       \/ Phases = SubSeq(PhaseOrderNoExport, 1, Len(Phases))
    /\ pc = "done" => (Logged("export_failed") <=> Rejected)
    /\ Logged("export_failed") <=> failed_dir # {}

\* a run that ended after it exported rejected records
C7_Witness ==
    /\ pc = "done"
    /\ log = PhaseOrder
    /\ failed_dir # {}

\* C7 as stated: the rejected records are written with the accepted ones,
\* before the target is re-read and before the report is emitted
C7_ExportBeforeReRead ==
    Rejected /\ (Logged("reread") \/ Logged("reconcile")) => failed_dir # {}

\* a run of main that ended without an exception of the store
Ended(state) == state.pc \in {"done", "failed"} /\ state.error # "sqlite3.Error"

\* C8: pipeline idempotence.  When main has run twice in a row on the same
\* source and the store did not fail, the target CSV files and the rows of
\* the store after the second run are those after the first, and so is the
\* overall_migration_status of the report.
C8_Idempotence ==
    Ended([pc |-> pc, error |-> error]) /\ Ended(prev) =>
        /\ target_csv = prev.target_csv
        /\ db = prev.db
        /\ pc = prev.pc
        /\ pc = "done" =>
               report.validation_summary.overall_migration_status
                   = prev.report.validation_summary.overall_migration_status

\* a second run that ended with a report, on a store the first run filled
C8_Witness ==
    /\ pc = "done"
    /\ prev.pc = "done"
    /\ run = 2
    /\ db.patients # {}
    /\ db.encounters # {}
    /\ db.billing_invoices # {}

\* the phase in which the exception that ended the run was raised
FailedPhase == log[Len(log) - 1]

\* C11: a storage failure is fatal, and so is any exception of a phase.  Once
\* a phase of main has raised, the run has ended with that exception and the
\* phase is the last that ran: nothing is reconciled after it, the report is
\* the one the run found, no summary is printed, no rejected record is
\* exported and no completion is logged.  When the store raised, the phase is
\* the save, the target was not re-read, and the store holds what it held
\* before the run: no record after the failing one was upserted.
C11_FailureIsFatal ==
    error # "none" =>
        /\ pc = "failed"
        /\ log[Len(log)] = "error"
        /\ Phases = SubSeq(PhaseOrder, 1, Len(Phases))
        /\ FailedPhase \in {"load", "validate", "save", "reread", "reconcile"}
        /\ FailedPhase \in {"load", "validate", "save", "reread"} =>
               ~Logged("reconcile") /\ report = prev.report
        /\ FailedPhase = "reconcile" => report = prev.report
        /\ ~Logged("summary") /\ summary = NoSummary
        /\ ~Logged("export_failed") /\ failed_dir = {}
        /\ ~Logged("completed")
        /\ error = "sqlite3.Error" =>
               /\ FailedPhase = "save"
               /\ ~Logged("reread")
               /\ db = prev.db
        /\ error = "FileNotFoundError" =>
               /\ FailedPhase = "load"
               /\ ~Logged("validate") /\ ~Logged("save")
               /\ db = prev.db /\ target_csv = prev.target_csv

\* a run in which the store raised on an upsert after the first, with
\* accepted records of every table to save
C11_Witness ==
    /\ error = "sqlite3.Error"
    /\ pc = "failed"
    /\ successful.patients # <<>>
    /\ successful.appointments # <<>>
    /\ successful.invoices # <<>>

\* a run that ended in the load phase on a missing source file
C11_WitnessLoad ==
    /\ error = "FileNotFoundError"
    /\ pc = "failed"

\* the rejected-record files of a table in target_data/failed
FailedFiles(t) == {f \in failed_dir : f.name = "failed_" \o t.target}

\* C12: a run that rejected at least one row and met no fatal error has
\* completed: every phase ran and the completion is logged.  Its report has
\* row_count_match false and overall_migration_status REVIEW_REQUIRED, and
\* target_data/failed holds one file, with the rejected records of the table,
\* for each table with a rejected row and none for a table without.
C12_RejectionsNeedReview ==
    pc = "done" /\ Rejected =>
        /\ error = "none"
        /\ log = PhaseOrder
        /\ ~report.row_count_match
        /\ report.validation_summary.overall_migration_status = "REVIEW_REQUIRED"
        /\ \A t \in Tables :
               IF failed[t.records] = <<>> THEN FailedFiles(t) = {}
               ELSE /\ Cardinality(FailedFiles(t)) = 1
                    /\ \A f \in FailedFiles(t) : f.rows = failed[t.records]

\* a completed run that rejected a patient row and no row of another table
C12_Witness ==
    /\ pc = "done"
    /\ failed.patients # <<>>
    /\ failed.appointments = <<>>
    /\ failed.invoices = <<>>
    /\ Cardinality(failed_dir) = 1

-----------------------------------------------------------------------------
(* validate_data on its own: one call on the frame read from a file of up   *)
(* to MaxLen rows                                                           *)

\* no legacy_id, which makes the column float64, and a date in another format
PatientRowD ==
    [PatientRowA EXCEPT !.legacy_id = Str(<<>>),
                        !.dob = Str(<<"0","7","/","0","4","/","1","9","8","5">>)]
\* no status
AppointmentRowD ==
    [AppointmentRowA EXCEPT !.legacy_id = Str(<<"3">>), !.status = Str(<<>>)]
\* an amount that is no number, which makes the column hold texts
InvoiceRowD ==
    [InvoiceRowA EXCEPT !.legacy_id = Str(<<"3">>), !.amount_usd = Str(<<"a","b","c">>)]

MaxLen == 3

SeqsUpTo(S, n) == UNION {[1..k -> S] : k \in 0..n}

ValidateInputs ==
    {[model_class |-> "PatientModel", table_name |-> "patients",
      file |-> File(SourcePatientColumns, r)] :
         r \in SeqsUpTo({PatientRowA, PatientRowB, PatientRowC, PatientRowD}, MaxLen)}
    \cup {[model_class |-> "EncounterModel", table_name |-> "appointments",
           file |-> File(SourceAppointmentColumns, r)] :
              r \in SeqsUpTo({AppointmentRowA, AppointmentRowB, AppointmentRowC,
                              AppointmentRowD}, MaxLen)}
    \cup {[model_class |-> "InvoiceModel", table_name |-> "invoices",
           file |-> File(SourceInvoiceColumns, r)] :
              r \in SeqsUpTo({InvoiceRowA, InvoiceRowB, InvoiceRowC, InvoiceRowD}, MaxLen)}

\* the variables of main, for a specification of one function
NoRun ==
    /\ run = 0
    /\ source = [patients |-> NoFile, appointments |-> NoFile, invoices |-> NoFile]
    /\ source_dfs = NoFrames
    /\ successful = NoRecords
    /\ failed = NoRecords
    /\ target_csv = [patients |-> NoFile, encounters |-> NoFile, billing_invoices |-> NoFile]
    /\ target_dfs = NoFrames
    /\ report = NoReport
    /\ summary = NoSummary
    /\ failed_dir = {}
    /\ log = <<>>
    /\ error = "none"
    /\ prev = [pc |-> "none"]

NoResult == [returned |-> FALSE]

InitValidate ==
    /\ pc = "call_validate_data"
    /\ arg \in ValidateInputs
    /\ res = NoResult
    /\ db = EmptyStore
    /\ NoRun

\* successful_records, failed_records = validate_data(df, model_class, table_name)
Call_validate_data ==
    /\ pc = "call_validate_data"
    /\ \E df \in {read_csv(arg.file).df} :
           res' = validate_data(df, arg.model_class, arg.table_name)
    /\ pc' = "returned_validate_data"
    /\ UNCHANGED <<run, source, source_dfs, successful, failed, target_csv, db, target_dfs,
                   report, summary, failed_dir, log, error, prev, arg>>

SpecValidate == InitValidate /\ [][Call_validate_data]_vars

\* the rows of the frame the call was given
ValidatedRows == read_csv(arg.file).df.rows

\* the positions of the rows without a rejected record, in order
AcceptedPositions ==
    SelectSeq([i \in 1..Len(ValidatedRows) |-> i],
              LAMBDA i : \A k \in DOMAIN res.failed : res.failed[k].row_index # i - 1)

\* C2: validate_data partitions its input.  Every rejected record names a row
\* of the frame, no row has two rejected records, and the accepted records
\* are as many as the rows without a rejected record: each row gives exactly
\* one entry, and len(accepted) + len(rejected) = len(rows).
C2_ValidateDataPartitions ==
    pc = "returned_validate_data" =>
        /\ \A k \in DOMAIN res.failed : res.failed[k].row_index \in 0..(Len(ValidatedRows) - 1)
        /\ \A j, k \in DOMAIN res.failed :
               res.failed[j].row_index = res.failed[k].row_index => j = k
        /\ Len(res.successful) = Len(AcceptedPositions)
        /\ Len(res.successful) + Len(res.failed) = Len(ValidatedRows)

\* a call on three rows that gave accepted and rejected records, one of them
\* for a row with two failing fields
C2_Witness ==
    /\ pc = "returned_validate_data"
    /\ Len(ValidatedRows) = MaxLen
    /\ res.successful # <<>>
    /\ \E k \in DOMAIN res.failed : Len(res.failed[k].field) = 2

\* C3: validate_data preserves input order.  The row_index values of the
\* rejected records are strictly increasing, and the k-th accepted record is
\* the record of the k-th row that was not rejected.
C3_ValidateDataKeepsOrder ==
    pc = "returned_validate_data" =>
        /\ \A j, k \in DOMAIN res.failed :
               j < k => res.failed[j].row_index < res.failed[k].row_index
        /\ Len(res.successful) = Len(AcceptedPositions)
        /\ \A k \in DOMAIN res.successful :
               res.successful[k] =
                   construct(arg.model_class, ValidatedRows[AcceptedPositions[k]]).rec

\* two different accepted records around a rejected row
C3_Witness ==
    /\ pc = "returned_validate_data"
    /\ Len(res.successful) = 2
    /\ res.successful[1] # res.successful[2]
    /\ \E k \in DOMAIN res.failed : res.failed[k].row_index = 1

\* C4: validate_data never raises on a bad row.  The call returns, and every
\* row, also one after a failing row, has its rejected record or its accepted
\* record in the result.
C4_ValidateDataNeverRaises ==
    pc = "returned_validate_data" =>
        /\ ~res.raised
        /\ \A i \in DOMAIN ValidatedRows :
               \/ \E k \in DOMAIN res.failed :
                      /\ res.failed[k].row_index = i - 1
                      /\ res.failed[k].source_data = ValidatedRows[i]
               \/ \E k \in DOMAIN res.successful :
                      /\ construct(arg.model_class, ValidatedRows[i]).ok
                      /\ res.successful[k] = construct(arg.model_class, ValidatedRows[i]).rec

\* a row whose validator raised an exception that is no ValidationError,
\* followed by a row that was accepted
C4_Witness ==
    /\ pc = "returned_validate_data"
    /\ \E k \in DOMAIN res.failed :
           /\ res.failed[k].error_message = "OverflowError"
           /\ res.failed[k].row_index + 2 \in DOMAIN ValidatedRows
           /\ construct(arg.model_class, ValidatedRows[res.failed[k].row_index + 2]).ok

-----------------------------------------------------------------------------
(* generate_reconcile_report on its own: one call on six frames.  The       *)
(* frames are built to the sizes at which each sub-check changes its        *)
(* outcome.                                                                 *)

\* n source patients, the first blank of them without a phone
SourcePatientsFrame(n, blank) ==
    [columns |-> SourcePatientColumns,
     rows |-> [i \in 1..n |->
                  [legacy_id |-> IntV(i),
                   first_name |-> Str(<<"A","n","n">>),
                   last_name |-> Str(<<"L","e","e">>),
                   dob |-> Str(<<"1","9","8","5","-","0","7","-","0","4">>),
                   phone |-> IF i <= blank THEN NaN ELSE Str(<<"5","5","5","-","1","2","3","4">>),
                   email |-> Str(<<"a","@","x",".","c","o","m">>),
                   created_at |-> Str(<<"2","0","2","2","-","0","1","-","0","1"," ",
                                        "1","0",":","3","0">>)]]]

\* n target patients with the phone read back from the CSV file
TargetPatientsFrame(n, phone) ==
    [columns |-> PatientColumns,
     rows |-> [i \in 1..n |->
                  [patient_uuid |-> generate_deterministic_uuid("patient", IntV(i)),
                   first_name |-> Str(<<"A","n","n">>),
                   last_name |-> Str(<<"L","e","e">>),
                   dob |-> Str(<<"1","9","8","5","-","0","7","-","0","4">>),
                   phone_e164 |-> phone,
                   email |-> Str(<<"a","@","x",".","c","o","m">>),
                   created_at |-> Str(<<"2","0","2","2","-","0","1","-","0","1"," ",
                                        "1","5",":","3","0",":","0","0","+","0","0",":",
                                        "0","0">>)]]]

\* n source appointments of patient 1, the first blank of them without status
SourceAppointmentsFrame(n, blank) ==
    [columns |-> SourceAppointmentColumns,
     rows |-> [i \in 1..n |->
                  [legacy_id |-> IntV(i),
                   patient_id |-> IntV(1),
                   appointment_date |-> Str(<<"2","0","2","3","-","0","3","-","0","1"," ",
                                              "0","9",":","0","0">>),
                   provider_name |-> Str(<<"D","r">>),
                   location |-> Str(<<"N","Y">>),
                   status |-> IF i <= blank THEN NaN
                              ELSE Str(<<"s","c","h","e","d","u","l","e","d">>)]]]

\* n target encounters, the first orphans of them of a patient that is not
\* in the target, the others of patient 1
TargetEncountersFrame(n, orphans) ==
    [columns |-> EncounterColumns,
     rows |-> [i \in 1..n |->
                  [encounter_uuid |-> generate_deterministic_uuid("encounter", IntV(i)),
                   patient_uuid |-> generate_deterministic_uuid(
                                        "patient", IF i <= orphans THEN IntV(0) ELSE IntV(1)),
                   encounter_ts_utc |-> [k |-> "datetime", y |-> 2023, mo |-> 3, d |-> 1,
                                         h |-> 14, mi |-> 0],
                   provider_name |-> Str(<<"D","r">>),
                   location |-> Str(<<"N","Y">>),
                   status |-> Str(<<"s","c","h","e","d","u","l","e","d">>)]]]

\* n source invoices of 10.50 dollars
SourceInvoicesFrame(n) ==
    [columns |-> SourceInvoiceColumns,
     rows |-> [i \in 1..n |->
                  [legacy_id |-> IntV(i),
                   patient_id |-> IntV(1),
                   amount_usd |-> FloatV(10500),
                   status |-> Str(<<"o","p","e","n">>),
                   issued_date |-> Str(<<"2","0","2","3","-","0","3","-","0","1"," ",
                                         "0","9",":","0","0">>),
                   paid_date |-> NaN]]]

\* n target invoices of the given cents, the first orphans of them orphaned
TargetInvoicesFrame(n, orphans, cents) ==
    [columns |-> InvoiceColumns,
     rows |-> [i \in 1..n |->
                  [invoice_uuid |-> generate_deterministic_uuid("invoice", IntV(i)),
                   patient_uuid |-> generate_deterministic_uuid(
                                        "patient", IF i <= orphans THEN IntV(0) ELSE IntV(1)),
                   invoice_total_cents |-> IntV(cents),
                   status |-> Str(<<"o","p","e","n">>),
                   issued_date_utc |-> [k |-> "datetime", y |-> 2023, mo |-> 3, d |-> 1,
                                        h |-> 14, mi |-> 0],
                   paid_date_utc |-> NaN]]]

\* source and target frames of the patients: equal; a row lost; more nulls
\* in the source than the null check allows; a numeric mean that moved; a
\* numeric source column whose target column holds a text; none
PatientFramePairs ==
    {<<SourcePatientsFrame(1, 0), TargetPatientsFrame(1, Str(<<"+","1","5","5","5">>))>>,
     <<SourcePatientsFrame(2, 0), TargetPatientsFrame(1, Str(<<"+","1","5","5","5">>))>>,
     <<SourcePatientsFrame(NullDifferenceAllowed + 2, NullDifferenceAllowed + 1),
       TargetPatientsFrame(NullDifferenceAllowed + 2, Str(<<"+","1","5","5","5">>))>>,
     <<SourcePatientsFrame(1, 1), TargetPatientsFrame(1, IntV(15551234))>>,
     <<SourcePatientsFrame(1, 1), TargetPatientsFrame(1, Str(<<"+","1"," ","5","5","5">>))>>,
     <<SourcePatientsFrame(1, 0), TargetPatientsFrame(0, NaN)>>}

\* of the appointments: equal; orphaned; more than the distribution check
\* allows for one patient; as many as it allows for one patient and one for
\* another; a row lost; more nulls than allowed
AppointmentFramePairs ==
    {<<SourceAppointmentsFrame(1, 0), TargetEncountersFrame(1, 0)>>,
     <<SourceAppointmentsFrame(1, 0), TargetEncountersFrame(1, 1)>>,
     <<SourceAppointmentsFrame(MaxAppointmentsPerPatient + 1, 0),
       TargetEncountersFrame(MaxAppointmentsPerPatient + 1, 0)>>,
     <<SourceAppointmentsFrame(MaxAppointmentsPerPatient + 1, 0),
       TargetEncountersFrame(MaxAppointmentsPerPatient + 1, 1)>>,
     <<SourceAppointmentsFrame(2, 0), TargetEncountersFrame(1, 0)>>,
     <<SourceAppointmentsFrame(NullDifferenceAllowed + 2, NullDifferenceAllowed + 1),
       TargetEncountersFrame(NullDifferenceAllowed + 2, 0)>>}

\* of the invoices: equal; orphaned; cents that are not the dollars; many
\* invoices, among which one orphan of the other table is few; a row lost
InvoiceFramePairs ==
    {<<SourceInvoicesFrame(1), TargetInvoicesFrame(1, 0, 1050)>>,
     <<SourceInvoicesFrame(1), TargetInvoicesFrame(1, 1, 1050)>>,
     <<SourceInvoicesFrame(1), TargetInvoicesFrame(1, 0, 2000)>>,
     <<SourceInvoicesFrame(30), TargetInvoicesFrame(30, 0, 1050)>>,
     <<SourceInvoicesFrame(2), TargetInvoicesFrame(1, 0, 1050)>>}

ReconcileInputs ==
    {[patients_source_df |-> p[1], patients_target_df |-> p[2],
      appointments_source_df |-> a[1], appointments_target_df |-> a[2],
      invoices_source_df |-> i[1], invoices_target_df |-> i[2]] :
         p \in PatientFramePairs, a \in AppointmentFramePairs, i \in InvoiceFramePairs}

InitReconcile ==
    /\ pc = "call_generate_reconcile_report"
    /\ arg \in ReconcileInputs
    /\ res = NoResult
    /\ db = EmptyStore
    /\ NoRun

\* report = generate_reconcile_report(...)
Call_generate_reconcile_report ==
    /\ pc = "call_generate_reconcile_report"
    /\ res' = generate_reconcile_report(
                  arg.patients_source_df, arg.patients_target_df,
                  arg.appointments_source_df, arg.appointments_target_df,
                  arg.invoices_source_df, arg.invoices_target_df)
    /\ pc' = "returned_generate_reconcile_report"
    /\ UNCHANGED <<run, source, source_dfs, successful, failed, target_csv, db, target_dfs,
                   report, summary, failed_dir, log, error, prev, arg>>

\* print_reconciliation_summary(), called once the report is written
Call_print_reconciliation_summary ==
    /\ pc = "returned_generate_reconcile_report"
    /\ res.ok
    /\ summary' = print_reconciliation_summary(res.report)
    /\ pc' = "returned_print_reconciliation_summary"
    /\ UNCHANGED <<run, source, source_dfs, successful, failed, target_csv, db, target_dfs,
                   report, failed_dir, log, error, prev, arg, res>>

SpecReconcile ==
    InitReconcile
        /\ [][Call_generate_reconcile_report \/ Call_print_reconciliation_summary]_vars

\* the eleven flags of a report
AllFlags(r) ==
    /\ r.row_count_match
    /\ r.referential_integrity.appointments_reference_patients
    /\ r.referential_integrity.invoices_reference_patients
    /\ r.referential_integrity.acceptable_orphan_level
    /\ r.referential_integrity.reasonable_appointment_distribution
    /\ \A t \in {"patients", "appointments", "invoices"} :
           /\ r.data_quality_validations[t].null_consistency_passed
           /\ r.data_quality_validations[t].numeric_consistency_passed

\* C1: generate_reconcile_report sets overall_migration_status to PASS if and
\* only if row_count_match, the four referential-integrity flags and the null
\* and numeric flags of the three tables are all true; otherwise the status
\* is REVIEW_REQUIRED.
C1_VerdictIffAllFlags ==
    pc = "returned_generate_reconcile_report" /\ res.ok =>
        /\ res.report.validation_summary.overall_migration_status
               \in {"PASS", "REVIEW_REQUIRED"}
        /\ res.report.validation_summary.overall_migration_status = "PASS"
               <=> AllFlags(res.report)

\* a report whose only false flag is a data-quality flag, and whose status is
\* REVIEW_REQUIRED
C1_Witness ==
    /\ pc = "returned_generate_reconcile_report"
    /\ res.ok
    /\ res.report.row_count_match
    /\ res.report.validation_summary.referential_integrity_passed
    /\ ~res.report.data_quality_validations.invoices.numeric_consistency_passed
    /\ res.report.data_quality_validations.invoices.null_consistency_passed
    /\ \A t \in {"patients", "appointments"} :
           /\ res.report.data_quality_validations[t].null_consistency_passed
           /\ res.report.data_quality_validations[t].numeric_consistency_passed
    /\ res.report.validation_summary.overall_migration_status = "REVIEW_REQUIRED"

\* the source and the target frame of a table given to the call have as many
\* rows
SameRows(t) == Len(arg[t \o "_source_df"].rows) = Len(arg[t \o "_target_df"].rows)

\* C13: row_count_match is true exactly when the source rows are as many as
\* the target rows for patients and for appointments and for invoices, and
\* false if any one of the three pairs differs.
C13_RowCountMatch ==
    pc = "returned_generate_reconcile_report" /\ res.ok =>
        /\ res.report.row_count_match
               <=> SameRows("patients") /\ SameRows("appointments") /\ SameRows("invoices")
        /\ res.report.validation_summary.row_counts_passed = res.report.row_count_match

\* a report on frames of which only the invoices lost a row
C13_Witness ==
    /\ pc = "returned_generate_reconcile_report"
    /\ res.ok
    /\ SameRows("patients")
    /\ SameRows("appointments")
    /\ ~SameRows("invoices")
    /\ ~res.report.row_count_match

\* the number of target appointment rows of a patient_uuid
AppointmentsOf(u) ==
    Cardinality({i \in 1..Len(arg.appointments_target_df.rows) :
                    arg.appointments_target_df.rows[i].patient_uuid = u})

\* the patient_uuids of the target appointment rows
AppointmentPatients ==
    {arg.appointments_target_df.rows[i].patient_uuid :
        i \in 1..Len(arg.appointments_target_df.rows)}

\* C26: reasonable_appointment_distribution is true if and only if no single
\* patient_uuid occurs in more than 100 target appointment rows (true when
\* there are no appointments), max_appointments_per_patient equals the
\* largest such count, and a target in which one patient has more than 100
\* appointments can never receive verdict PASS.
C26_AppointmentDistribution ==
    pc = "returned_generate_reconcile_report" /\ res.ok =>
        LET ref == res.report.referential_integrity
        IN  /\ ref.reasonable_appointment_distribution
                   <=> \A u \in AppointmentPatients : AppointmentsOf(u) <= 100
            /\ \A u \in AppointmentPatients : AppointmentsOf(u) <= ref.max_appointments_per_patient
            /\ IF AppointmentPatients = {} THEN ref.max_appointments_per_patient = 0
               ELSE \E u \in AppointmentPatients :
                        AppointmentsOf(u) = ref.max_appointments_per_patient
            /\ (\E u \in AppointmentPatients : AppointmentsOf(u) > 100) =>
                   res.report.validation_summary.overall_migration_status # "PASS"

\* a target in which one patient has 101 appointments, every other flag
\* true, and the status REVIEW_REQUIRED
C26_Witness ==
    /\ pc = "returned_generate_reconcile_report"
    /\ res.ok
    /\ res.report.referential_integrity.max_appointments_per_patient = 101
    /\ ~res.report.referential_integrity.reasonable_appointment_distribution
    /\ res.report.row_count_match
    /\ res.report.referential_integrity.appointments_reference_patients
    /\ res.report.referential_integrity.invoices_reference_patients
    /\ res.report.referential_integrity.acceptable_orphan_level
    /\ res.report.validation_summary.data_quality_passed
    /\ res.report.validation_summary.overall_migration_status = "REVIEW_REQUIRED"

\* a target in which one patient has 100 appointments and another one has
\* one, and the status PASS
C26_WitnessAllowed ==
    /\ pc = "returned_generate_reconcile_report"
    /\ res.ok
    /\ Cardinality(AppointmentPatients) = 2
    /\ res.report.referential_integrity.max_appointments_per_patient = 100
    /\ res.report.referential_integrity.reasonable_appointment_distribution
    /\ res.report.validation_summary.overall_migration_status = "PASS"

\* a label printed for a flag agrees with it
Agrees(label, flag) == label = (IF flag THEN "PASS" ELSE "REVIEW")

\* C27: the rendered summary adds no computation of its own: for every
\* report produced by generate_reconcile_report, each PASS/REVIEW label
\* printed by print_reconciliation_summary for a sub-check (appointment
\* references, invoice references, orphan level, per-table null
\* consistency, per-table numeric consistency) agrees with the
\* corresponding boolean flag stored in the report, including when the
\* numeric analysis took its exception path.
C27_SummaryAgreesWithFlags ==
    pc = "returned_print_reconciliation_summary" =>
        LET ref == res.report.referential_integrity
            quality == res.report.data_quality_validations
        IN  /\ Agrees(summary.appointments_reference_patients,
                      ref.appointments_reference_patients)
            /\ Agrees(summary.invoices_reference_patients, ref.invoices_reference_patients)
            /\ Agrees(summary.orphaned_records, ref.acceptable_orphan_level)
            /\ \A t \in {"patients", "appointments", "invoices"} :
                   /\ Agrees(summary[t].null_consistency, quality[t].null_consistency_passed)
                   /\ Agrees(summary[t].numeric_consistency,
                             quality[t].numeric_consistency_passed)

\* the numeric analysis of the patients took its exception path: the flag is
\* true and the label printed is REVIEW
C27_Witness ==
    /\ pc = "returned_print_reconciliation_summary"
    /\ ~res.report.data_quality_validations.patients.numeric_percentage_set
    /\ res.report.data_quality_validations.patients.numeric_consistency_passed
    /\ summary.patients.numeric_consistency = "REVIEW"

\* what the summary does: the labels agree with the flags of every report
\* whose numeric analyses did not take the exception path, and the numeric
\* label of a table whose analysis took it is REVIEW
C27_SummaryAgreesUnlessException ==
    pc = "returned_print_reconciliation_summary" =>
        LET ref == res.report.referential_integrity
            quality == res.report.data_quality_validations
        IN  /\ Agrees(summary.appointments_reference_patients,
                      ref.appointments_reference_patients)
            /\ Agrees(summary.invoices_reference_patients, ref.invoices_reference_patients)
            /\ Agrees(summary.orphaned_records, ref.acceptable_orphan_level)
            /\ \A t \in {"patients", "appointments", "invoices"} :
                   /\ Agrees(summary[t].null_consistency, quality[t].null_consistency_passed)
                   /\ IF quality[t].numeric_percentage_set
                          THEN Agrees(summary[t].numeric_consistency,
                                      quality[t].numeric_consistency_passed)
                      ELSE /\ quality[t].numeric_consistency_passed
                           /\ summary[t].numeric_consistency = "REVIEW"

\* a report with a false numeric flag and the label REVIEW for it
C27_WitnessAgrees ==
    /\ pc = "returned_print_reconciliation_summary"
    /\ res.report.data_quality_validations.invoices.numeric_percentage_set
    /\ ~res.report.data_quality_validations.invoices.numeric_consistency_passed
    /\ summary.invoices.numeric_consistency = "REVIEW"

-----------------------------------------------------------------------------
(* validate_referential_integrity on its own, on target frames of given    *)
(* sizes                                                                   *)

\* target frames: patients, appointments with their orphans, invoices with
\* theirs.  The rows of a child table: none, one, twenty, and the fewest of
\* which a part lies between 94.95% and 95%.
ReferentialInputs ==
    LET ChildRows == {0, 1, 20, 119}
        OrphanRows == {0, 1, 6, 7}
    IN  {[patients_df |-> TargetPatientsFrame(n, NaN),
          appointments_df |-> TargetEncountersFrame(a[1], a[2]),
          invoices_df |-> TargetInvoicesFrame(i[1], i[2], 1050)] :
             n \in {0, 1, 3},
             a \in {c \in ChildRows \X OrphanRows : c[2] <= c[1]},
             i \in {c \in ChildRows \X (OrphanRows \ {7}) : c[2] <= c[1]}}

InitReferential ==
    /\ pc = "call_validate_referential_integrity"
    /\ arg \in ReferentialInputs
    /\ res = NoResult
    /\ db = EmptyStore
    /\ NoRun

\* validations = validate_referential_integrity(...)
Call_validate_referential_integrity ==
    /\ pc = "call_validate_referential_integrity"
    /\ res' = validate_referential_integrity(arg.patients_df, arg.appointments_df,
                                              arg.invoices_df)
    /\ pc' = "returned_validate_referential_integrity"
    /\ UNCHANGED <<run, source, source_dfs, successful, failed, target_csv, db, target_dfs,
                   report, summary, failed_dir, log, error, prev, arg>>

SpecReferential == InitReferential /\ [][Call_validate_referential_integrity]_vars

\* the rows of a child frame whose patient_uuid is that of a target patient
Matching(df) ==
    Cardinality({i \in DOMAIN df.rows :
                     \E j \in DOMAIN arg.patients_df.rows :
                         arg.patients_df.rows[j].patient_uuid = df.rows[i].patient_uuid})

\* p tenths of a percent is 100 x a / b rounded to one decimal
IsRounded(p, a, b) == 2 * (IF 1000 * a >= p * b THEN 1000 * a - p * b ELSE p * b - 1000 * a) <= b

\* the child tables of the report: the frame given, the names of the
\* percentage and of the flag
Children ==
    {[df |-> arg.appointments_df, percentage |-> "appointments_reference_percentage",
      flag |-> "appointments_reference_patients"],
     [df |-> arg.invoices_df, percentage |-> "invoices_reference_percentage",
      flag |-> "invoices_reference_patients"]}

\* C14 as amended: the reported reference percentage of a child table is
\* 100 x matching / total rounded to one decimal, and the flag is true if and
\* only if that rounded percentage is at least 95.0, so that 113 matching
\* rows of 119 (94.96%) pass; when the child table is empty the percentage is
\* 100.0 and the flag is true.
C14_ReferencePercentage ==
    pc = "returned_validate_referential_integrity" /\ res.ok =>
        \A c \in Children :
            IF Len(c.df.rows) = 0
                THEN res.v[c.percentage] = 1000 /\ res.v[c.flag]
            ELSE /\ IsRounded(res.v[c.percentage], Matching(c.df), Len(c.df.rows))
                 /\ res.v[c.flag] <=> res.v[c.percentage] >= 950

\* 113 of 119 appointments have their patient in the target, and the flag is
\* true
C14_Witness ==
    /\ pc = "returned_validate_referential_integrity"
    /\ res.ok
    /\ Len(arg.appointments_df.rows) = 119
    /\ Matching(arg.appointments_df) = 113
    /\ res.v.appointments_reference_percentage = 950
    /\ res.v.appointments_reference_patients

\* C14 as stated: the flag is true if and only if at least 95% of the rows
\* of the child table have their patient in the target
C14_ReferenceAtLeast95 ==
    pc = "returned_validate_referential_integrity" /\ res.ok =>
        \A c \in Children :
            Len(c.df.rows) > 0 =>
                (res.v[c.flag] <=> 100 * Matching(c.df) >= 95 * Len(c.df.rows))

\* the rows of a child frame whose patient is not in the target
Orphans(df) == Len(df.rows) - Matching(df)

\* C15 as amended: the orphan count of a child table is the number of its
\* target rows whose patient_uuid is not in the target patients set,
\* total_orphaned_records is the sum over appointments and invoices, the
\* orphan percentage is 100 x total orphans / total child rows rounded to one
\* decimal (0.0 without child rows), and acceptable_orphan_level is true if
\* and only if that rounded percentage is at most 5.0, so that 6 orphans of
\* 119 child rows (5.04%) are acceptable.  Three patients, one appointment
\* with an unknown patient_uuid and no invoice give orphan count 1, orphan
\* percentage 100.0, acceptable_orphan_level false and, for any row counts
\* and quality flags, the verdict REVIEW_REQUIRED.
C15_OrphanLevel ==
    pc = "returned_validate_referential_integrity" /\ res.ok =>
        LET children == Len(arg.appointments_df.rows) + Len(arg.invoices_df.rows)
            orphans == Orphans(arg.appointments_df) + Orphans(arg.invoices_df)
        IN  /\ res.v.orphaned_appointments_count = Orphans(arg.appointments_df)
            /\ res.v.orphaned_invoices_count = Orphans(arg.invoices_df)
            /\ res.v.total_orphaned_records = orphans
            /\ IF children = 0
                   THEN res.v.orphan_percentage = 0 /\ res.v.acceptable_orphan_level
               ELSE /\ IsRounded(res.v.orphan_percentage, orphans, children)
                    /\ res.v.acceptable_orphan_level <=> res.v.orphan_percentage <= 50
            /\ (/\ Len(arg.patients_df.rows) = 3
                /\ Len(arg.appointments_df.rows) = 1
                /\ Orphans(arg.appointments_df) = 1
                /\ Len(arg.invoices_df.rows) = 0)
               => /\ res.v.total_orphaned_records = 1
                  /\ res.v.orphan_percentage = 1000
                  /\ ~res.v.acceptable_orphan_level
                  /\ \A counts \in BOOLEAN, quality \in BOOLEAN :
                         overall_migration_status(
                             counts, all_referential_checks_passed(res.v), quality)
                             = "REVIEW_REQUIRED"

\* 6 of 119 child rows are orphans, and the level is acceptable
C15_Witness ==
    /\ pc = "returned_validate_referential_integrity"
    /\ res.ok
    /\ Len(arg.appointments_df.rows) + Len(arg.invoices_df.rows) = 119
    /\ res.v.total_orphaned_records = 6
    /\ res.v.orphan_percentage = 50
    /\ res.v.acceptable_orphan_level

\* the scenario of three patients and one orphaned appointment
C15_WitnessScenario ==
    /\ pc = "returned_validate_referential_integrity"
    /\ Len(arg.patients_df.rows) = 3
    /\ Len(arg.appointments_df.rows) = 1
    /\ Len(arg.invoices_df.rows) = 0
    /\ res.v.orphaned_appointments_count = 1

\* C15 as stated: acceptable_orphan_level is true if and only if the orphans
\* are at most 5% of the child rows
C15_OrphansAtMost5 ==
    pc = "returned_validate_referential_integrity" /\ res.ok =>
        LET children == Len(arg.appointments_df.rows) + Len(arg.invoices_df.rows)
            orphans == Orphans(arg.appointments_df) + Orphans(arg.invoices_df)
        IN  children > 0 => (res.v.acceptable_orphan_level <=> 100 * orphans <= 5 * children)

-----------------------------------------------------------------------------
(* The upserts of export_to_sqlite on their own: any sequence of upserts    *)
(* of validated records, with the last one kept in arg                      *)

\* patient 2
PatientRowE == [PatientRowB EXCEPT !.legacy_id = Str(<<"2">>)]

\* the records export_to_sqlite is given: save_target_data's clean records
UpsertRecords ==
    [patients |->
        Range(clean(accepted(File(SourcePatientColumns,
                                  <<PatientRowA, PatientRowB, OldPatientRow, PatientRowE>>),
                             "PatientModel", "patients"), {"legacy_id"})),
     encounters |->
        Range(clean(accepted(File(SourceAppointmentColumns,
                                  <<AppointmentRowA, AppointmentRowB, OldAppointmentRow>>),
                             "EncounterModel", "appointments"),
                    {"legacy_id", "patient_legacy_id"})),
     billing_invoices |->
        Range(clean(accepted(File(SourceInvoiceColumns,
                                  <<InvoiceRowA, InvoiceRowB, OldInvoiceRow>>),
                             "InvoiceModel", "invoices"),
                    {"legacy_id", "patient_legacy_id"}))]

NoCall == [kind |-> "none"]

InitUpsert ==
    /\ pc = "upsert"
    /\ arg = NoCall
    /\ res = NoResult
    /\ db = EmptyStore
    /\ NoRun

\* cursor.execute("INSERT INTO ... ON CONFLICT(...) DO UPDATE SET ...")
Call_upsert ==
    /\ pc = "upsert"
    /\ \E kind \in DOMAIN UpsertRecords :
           \E rec \in UpsertRecords[kind] :
               /\ db' = [db EXCEPT ![kind] = upsert(kind, @, rec)]
               /\ arg' = [kind |-> kind, rec |-> rec, before |-> db[kind]]
    /\ UNCHANGED <<pc, run, source, source_dfs, successful, failed, target_csv, target_dfs,
                   report, summary, failed_dir, log, error, prev, res>>

SpecUpsert == InitUpsert /\ [][Call_upsert]_vars

\* the identifier column and the columns of a table of the store
IdColumn(kind) ==
    CASE kind = "patients" -> "patient_uuid"
      [] kind = "encounters" -> "encounter_uuid"
      [] kind = "billing_invoices" -> "invoice_uuid"

TableColumns(kind) ==
    CASE kind = "patients" -> PatientColumns
      [] kind = "encounters" -> EncounterColumns
      [] kind = "billing_invoices" -> InvoiceColumns

\* the row the last upsert bound
Bound == bind(arg.rec, TableColumns(arg.kind))

\* the last upsert was of an identifier the table held
Conflict == arg.kind # "none" /\ \E r \in arg.before : r[IdColumn(arg.kind)] = Bound[IdColumn(arg.kind)]

\* C9: after any sequence of upserts each table of the store holds at most
\* one row per primary identifier, and the upsert of a record that is stored
\* with the same field values leaves the table as it was.
C9_OneRowPerIdentifier ==
    /\ \A kind \in DOMAIN db :
           \A r1, r2 \in db[kind] : r1[IdColumn(kind)] = r2[IdColumn(kind)] => r1 = r2
    /\ arg.kind # "none" /\ Bound \in arg.before => db[arg.kind] = arg.before

\* the upsert of a stored record into a table of two rows
C9_Witness ==
    /\ arg.kind # "none"
    /\ Bound \in arg.before
    /\ Cardinality(db[arg.kind]) = 2

\* C10: an upsert of a patient whose patient_uuid is stored keeps the stored
\* patient_uuid and created_at and gives first_name, last_name, phone_e164
\* and email the values of the new record; an upsert of a stored encounter or
\* invoice keeps the identifier column and replaces the fields its statement
\* sets; the other rows stay.
C10_ConflictUpdate ==
    Conflict =>
        LET id == IdColumn(arg.kind)
            old == CHOOSE r \in arg.before : r[id] = Bound[id]
            replaced ==
                CASE arg.kind = "patients" -> {"first_name", "last_name", "phone_e164", "email"}
                  [] arg.kind = "encounters" ->
                        {"encounter_ts_utc", "provider_name", "location", "status"}
                  [] arg.kind = "billing_invoices" ->
                        {"invoice_total_cents", "status", "paid_date_utc"}
            kept == IF arg.kind = "patients" THEN {id, "created_at"} ELSE {id}
        IN  /\ arg.before \ {old} \subseteq db[arg.kind]
            /\ Cardinality(db[arg.kind]) = Cardinality(arg.before)
            /\ \E r \in db[arg.kind] :
                   /\ \A c \in kept : r[c] = old[c]
                   /\ \A c \in replaced : r[c] = Bound[c]

\* an upsert of a stored patient with another name and another created_at
C10_Witness ==
    /\ Conflict
    /\ arg.kind = "patients"
    /\ \E old \in arg.before :
           /\ old.patient_uuid = Bound.patient_uuid
           /\ old.created_at # Bound.created_at
           /\ old.first_name # Bound.first_name

-----------------------------------------------------------------------------
(* The three models on their own, constructed as the unit tests construct   *)
(* them: from keyword arguments, the legacy ids integers                    *)

\* the keyword arguments of the tests' valid patient, appointment and invoice
PatientData ==
    [legacy_id |-> IntV(1),
     first_name |-> Str(<<"J", "o", "h", "n">>),
     last_name |-> Str(<<"D", "o", "e">>),
     dob |-> Str(<<"1", "9", "9", "0", "-", "0", "1", "-", "1", "5">>),
     phone |-> Str(<<"(", "8", "1", "8", ")", " ", "5", "5", "5", "-", "1", "2", "3", "4">>),
     email |-> Str(<<"j", "o", "h", "n", "@", "e", "x", "a", "m", "p", "l", "e", ".", "c", "o", "m">>),
     created_at |-> Str(<<"2", "0", "2", "2", "-", "0", "1", "-", "0", "1", " ", "1", "0", ":", "3", "0">>)]

AppointmentData ==
    [legacy_id |-> IntV(1),
     patient_id |-> IntV(123),
     appointment_date |-> Str(<<"2", "0", "2", "3", "-", "0", "1", "-", "1", "5", " ", "1", "4", ":", "3", "0">>),
     provider_name |-> Str(<<"D", "r", ".", " ", "S", "m", "i", "t", "h">>),
     location |-> Str(<<"M", "a", "i", "n", " ", "C", "l", "i", "n", "i", "c">>),
     status |-> Str(<<"S", "C", "H", "E", "D", "U", "L", "E", "D">>)]

InvoiceData ==
    [legacy_id |-> IntV(1),
     patient_id |-> IntV(123),
     amount_usd |-> FloatV(150750),
     status |-> Str(<<"P", "A", "I", "D">>),
     issued_date |-> Str(<<"2", "0", "2", "3", "-", "0", "1", "-", "1", "5", " ", "1", "0", ":", "0", "0">>),
     paid_date |-> Str(<<"2", "0", "2", "3", "-", "0", "1", "-", "2", "0", " ", "1", "5", ":", "3", "0">>)]

\* emails: well-formed, with capitals, with blanks around, and the malformed
\* ones of test_email_validation; None and NaN for an absent one
Emails ==
    {Str(<<"a", "@", "x", ".", "c", "o", "m">>),
     Str(<<"A", ".", "B", "@", "X", ".", "C", "O", "M">>),
     Str(<<" ", "a", "@", "x", ".", "c", "o", "m", " ">>),
     Str(<<"a", "+", "t", "@", "d", ".", "c", "o", ".", "u", "k">>),
     Str(<<"a", "x", ".", "c", "o", "m">>),
     Str(<<"a", "@", "@", "x", ".", "c", "o", "m">>),
     Str(<<"a", "@">>),
     Str(<<"@", "x", ".", "c", "o", "m">>),
     Str(<<>>),
     Str(<<"a", "@", "x">>),
     Str(<<"a", " ", "b", "@", "x", ".", "c", "o", "m">>),
     None,
     NaN}

\* phones: the four surface formats of one number and the same with its
\* country code, blank ones, the invalid ones of test_phone_number_formats, a
\* local number, too few digits; None and NaN for an absent one
Phones ==
    {Str(<<"(", "8", "1", "8", ")", " ", "5", "5", "5", "-", "1", "2", "3", "4">>),
     Str(<<"8", "1", "8", "-", "5", "5", "5", "-", "1", "2", "3", "4">>),
     Str(<<"8", "1", "8", ".", "5", "5", "5", ".", "1", "2", "3", "4">>),
     Str(<<"8", "1", "8", "5", "5", "5", "1", "2", "3", "4">>),
     Str(<<"1", "-", "8", "1", "8", "-", "5", "5", "5", "-", "1", "2", "3", "4">>),
     Str(<<>>),
     Str(<<" ", " ", " ">>),
     Str(<<"(", "5", "5", "5", ")", " ", "1", "2", "3", "-", "4", "5", "6", "7">>),
     Str(<<"i", "n", "v", "a", "l", "i", "d">>),
     Str(<<"(", "0", "1", "1", ")", " ", "1", "2", "3", "-", "4", "5", "6", "7">>),
     Str(<<"(", "9", "6", "0", ")", " ", "1", "2", "3", "-", "4", "5", "6", "7">>),
     Str(<<"5", "5", "5", "-", "1", "2", "3", "4">>),
     Str(<<"1", "2", "3", "4", "5">>),
     None,
     NaN}

\* statuses of appointments: the vocabulary in several cases and the values
\* of test_status_mapping that are not in it
EncounterStatuses ==
    {Str(<<"S", "C", "H", "E", "D", "U", "L", "E", "D">>),
     Str(<<"C", "A", "N", "C", "E", "L", "L", "E", "D">>),
     Str(<<"C", "O", "M", "P", "L", "E", "T", "E", "D">>),
     Str(<<"s", "c", "h", "e", "d", "u", "l", "e", "d">>),
     Str(<<"C", "a", "n", "c", "e", "l", "l", "e", "d">>),
     Str(<<" ", "c", "o", "m", "p", "l", "e", "t", "e", "d", " ">>),
     Str(<<"u", "n", "k", "n", "o", "w", "n", "_", "s", "t", "a", "t", "u", "s">>),
     Str(<<"I", "N", "V", "A", "L", "I", "D">>),
     Str(<<"p", "e", "n", "d", "i", "n", "g">>),
     Str(<<"C", "O", "M", "P", "L", "E">>),
     Str(<<>>),
     None,
     NaN}

\* statuses of invoices
InvoiceStatuses ==
    {Str(<<"O", "P", "E", "N">>),
     Str(<<"P", "A", "I", "D">>),
     Str(<<"o", "p", "e", "n">>),
     Str(<<"P", "a", "i", "d">>),
     Str(<<"p", "e", "n", "d", "i", "n", "g">>),
     Str(<<"V", "O", "I", "D">>),
     Str(<<>>),
     None,
     NaN}

\* paid dates: well-formed, blank, malformed, the text nan; None and NaN
PaidDates ==
    {Str(<<"2", "0", "2", "3", "-", "0", "1", "-", "2", "0", " ", "1", "5", ":", "3", "0">>),
     Str(<<"2", "0", "2", "3", "-", "0", "7", "-", "0", "4", " ", "2", "3", ":", "3", "0">>),
     Str(<<>>),
     Str(<<" ", " ">>),
     Str(<<"2", "0", "2", "3", "-", "1", "3", "-", "0", "1", " ", "1", "0", ":", "0", "0">>),
     Str(<<"0", "1", "/", "2", "0", "/", "2", "0", "2", "3">>),
     Str(<<"2", "0", "2", "3", "-", "0", "1", "-", "2", "0">>),
     Str(<<"n", "a", "n">>),
     None,
     NaN}

ModelInputs ==
    {[model_class |-> "PatientModel", row |-> [PatientData EXCEPT !.email = e, !.phone = p]] :
         e \in Emails, p \in Phones}
    \cup {[model_class |-> "EncounterModel", row |-> [AppointmentData EXCEPT !.status = s]] :
              s \in EncounterStatuses}
    \cup {[model_class |-> "InvoiceModel",
           row |-> [InvoiceData EXCEPT !.status = s, !.paid_date = d]] :
              s \in InvoiceStatuses, d \in PaidDates}

InitModels ==
    /\ pc = "call_model_class"
    /\ arg \in ModelInputs
    /\ res = NoResult
    /\ db = EmptyStore
    /\ NoRun

\* validated_record = model_class(**row_dict); validated_record.model_dump()
Call_model_class ==
    /\ pc = "call_model_class"
    /\ res' = construct(arg.model_class, arg.row)
    /\ pc' = "returned_model_class"
    /\ UNCHANGED <<run, source, source_dfs, successful, failed, target_csv, db, target_dfs,
                   report, summary, failed_dir, log, error, prev, arg>>

SpecModels == InitModels /\ [][Call_model_class]_vars

\* the call returned for a row of the model
Returned(model_class) == pc = "returned_model_class" /\ arg.model_class = model_class

\* the positions of a character in a text
Positions(t, c) == {i \in DOMAIN t : t[i] = c}

\* the email grammar: one "@", no blank, a local part, and a domain with a
\* dot that has text on both sides
WellFormedEmail(t) ==
    /\ Cardinality(Positions(t, "@")) = 1
    /\ Positions(t, " ") = {}
    /\ \E at \in Positions(t, "@") :
           /\ at > 1
           /\ \E dot \in Positions(t, ".") : at + 1 < dot /\ dot < Len(t)

\* C16: a row whose email is absent or malformed is rejected by
\* PatientModel, and a well-formed email is accepted and stored trimmed and
\* lower-cased.
C16_EmailGrammar ==
    Returned("PatientModel") =>
        LET email == arg.row.email
        IN  IF email.k = "str" /\ WellFormedEmail(strip(email.s))
                THEN res.ok /\ res.rec.email = Str(lower(strip(email.s)))
            ELSE ~res.ok

\* what PatientModel does: an email that is None, NaN, blank or the text nan
\* is rejected, and any other text is accepted, stored trimmed and
\* lower-cased, whatever its form
C16_EmailAccepted ==
    Returned("PatientModel") =>
        LET email == arg.row.email
        IN  IF email.k = "str" /\ strip(email.s) # <<>>
                    /\ lower(email.s) # <<"n", "a", "n">>
                THEN res.ok /\ res.rec.email = Str(lower(strip(email.s)))
            ELSE ~res.ok /\ res.fields = <<"email">>

\* an email without "@" was accepted
C16_Witness ==
    /\ Returned("PatientModel")
    /\ arg.row.email = Str(<<"a", "x", ".", "c", "o", "m">>)
    /\ res.ok
    /\ res.rec.email = arg.row.email

\* the vocabulary of the status of a model
Vocabulary(model_class) ==
    IF model_class = "EncounterModel"
        THEN {<<"s", "c", "h", "e", "d", "u", "l", "e", "d">>,
              <<"c", "a", "n", "c", "e", "l", "l", "e", "d">>,
              <<"c", "o", "m", "p", "l", "e", "t", "e", "d">>}
    ELSE {<<"o", "p", "e", "n">>, <<"p", "a", "i", "d">>}

\* C17: every accepted encounter has a status in {scheduled, cancelled,
\* completed} and every accepted invoice one in {open, paid}: a value of the
\* vocabulary in any case is accepted as its lower-case form, and a row whose
\* status is absent or outside the vocabulary is rejected.
C17_StatusVocabulary ==
    \A model_class \in {"EncounterModel", "InvoiceModel"} :
        (/\ Returned(model_class)
         /\ model_class = "InvoiceModel" => arg.row.paid_date = InvoiceData.paid_date) =>
            LET status == arg.row.status
            IN  IF status.k = "str" /\ lower(strip(status.s)) \in Vocabulary(model_class)
                    THEN res.ok /\ res.rec.status = Str(lower(strip(status.s)))
                ELSE ~res.ok

\* an appointment of status pending was accepted with that status
C17_Witness ==
    /\ Returned("EncounterModel")
    /\ arg.row.status = Str(<<"p", "e", "n", "d", "i", "n", "g">>)
    /\ res.ok
    /\ res.rec.status = Str(<<"p", "e", "n", "d", "i", "n", "g">>)

\* a phone is present: a text that is not blank
Present(phone) == phone.k = "str" /\ strip(phone.s) # <<>>

\* the national number a phone text stands for: its digits without the
\* country code 1 before ten digits
National(t) ==
    LET d == SelectSeq(t, IsDigit)
    IN  IF Len(d) = 11 /\ Head(d) = "1" THEN Tail(d) ELSE d

\* the text is a valid number of the North American plan: ten digits in
\* digits and punctuation, of an assigned area code (818 is the one among
\* the inputs) and an exchange that begins with 2 to 9
ValidPhone(t) ==
    /\ \A j \in DOMAIN t : IsDigit(t[j]) \/ t[j] \in {" ", "(", ")", "-", "."}
    /\ Len(National(t)) = 10
    /\ SubSeq(National(t), 1, 3) = <<"8", "1", "8">>
    /\ National(t)[4] \notin {"0", "1"}

\* the patient of the call is valid but for its phone
PatientWithPhone ==
    Returned("PatientModel") /\ arg.row.email = Str(<<"a", "@", "x", ".", "c", "o", "m">>)

\* C18: for every present phone the normalizer returns the E.164 string only
\* if the number is a valid number of the plan, every surface format of it
\* giving the same string; for a present phone that is not valid, also one
\* that is merely possible, it returns null and the record is accepted.
C18_PhoneValidOrNull ==
    PatientWithPhone /\ Present(arg.row.phone) =>
        /\ res.ok
        /\ res.rec.phone_e164 =
               IF ValidPhone(arg.row.phone.s)
                   THEN Str(<<"+", "1">> \o National(arg.row.phone.s))
               ELSE None

\* a number of an unassigned area code was accepted in E.164
C18_Witness ==
    /\ PatientWithPhone
    /\ arg.row.phone = Str(<<"(", "9", "6", "0", ")", " ", "1", "2", "3", "-", "4", "5", "6", "7">>)
    /\ res.ok
    /\ res.rec.phone_e164 = Str(<<"+", "1", "9", "6", "0", "1", "2", "3", "4", "5", "6", "7">>)

\* C19: constructing a PatientModel from a row whose phone is present but
\* invalid raises a ValidationError, while a blank or None phone yields
\* phone_e164 = None and the row is accepted.
C19_InvalidPhoneRejected ==
    PatientWithPhone =>
        IF ~Present(arg.row.phone) THEN res.ok /\ res.rec.phone_e164 = None
        ELSE ~ValidPhone(arg.row.phone.s) => ~res.ok /\ res.exc = "ValidationError"

\* a phone that is no number was accepted with phone_e164 = None
C19_Witness ==
    /\ PatientWithPhone
    /\ arg.row.phone = Str(<<"i", "n", "v", "a", "l", "i", "d">>)
    /\ res.ok
    /\ res.rec.phone_e164 = None

\* the text has the form YYYY-MM-DD HH:MM of a day and a time that exist
WellFormedStamp(t) ==
    /\ Len(t) = 16
    /\ \A j \in 1..16 :
           IF j \in {5, 8} THEN t[j] = "-"
           ELSE IF j = 11 THEN t[j] = " "
           ELSE IF j = 14 THEN t[j] = ":"
           ELSE IsDigit(t[j])
    /\ SubSeq(t, 6, 7) \in {<<"0", "1">>, <<"0", "7">>}
    /\ SubSeq(t, 9, 10) \in {<<"2", "0">>, <<"0", "4">>}
    /\ t[12] \in {"0", "1", "2"}
    /\ t[15] \in {"0", "1", "2", "3", "4", "5"}

\* the UTC time of the well-formed paid dates: New York is five hours behind
\* UTC in January and four in July
PaidDateUTC(t) ==
    IF t = <<"2", "0", "2", "3", "-", "0", "1", "-", "2", "0", " ", "1", "5", ":", "3", "0">>
        THEN [k |-> "datetime", y |-> 2023, mo |-> 1, d |-> 20, h |-> 20, mi |-> 30]
    ELSE [k |-> "datetime", y |-> 2023, mo |-> 7, d |-> 5, h |-> 3, mi |-> 30]

\* the invoice of the call is valid but for its paid date
InvoiceWithPaidDate == Returned("InvoiceModel") /\ arg.row.status = InvoiceData.status

C20_WitnessRejected ==
    /\ InvoiceWithPaidDate
    /\ arg.row.paid_date = Str(<<"2", "0", "2", "3", "-", "1", "3", "-", "0", "1", " ", "1", "0", ":", "0", "0">>)
    /\ ~res.ok

-----------------------------------------------------------------------------
(* The three models on their own, on rows that differ from a valid row in   *)
(* one mandatory field, in the amount, or in the type in which pandas       *)
(* hands over the legacy ids                                                *)

\* the forms of a missing value: None, NaN, the empty string, blanks, and the
\* text nan (a NaN that was converted to a string)
Blanks ==
    {None, NaN, Str(<<>>), Str(<<" ", " ">>), Str(<<"n", "a", "n">>), Str(<<"N", "a", "N">>)}

\* the fields without Optional and without a default, by their aliases
RequiredFields(model_class) ==
    CASE model_class = "PatientModel" ->
            {"first_name", "last_name", "dob", "email", "created_at"}
      [] model_class = "EncounterModel" ->
            {"appointment_date", "provider_name", "location", "status"}
      [] model_class = "InvoiceModel" -> {"amount_usd", "status", "issued_date"}

\* the valid row of each model
ModelData(model_class) ==
    CASE model_class = "PatientModel" -> PatientData
      [] model_class = "EncounterModel" -> AppointmentData
      [] model_class = "InvoiceModel" -> InvoiceData

\* amounts: the ones of the unit tests, as float, int and text; zero; amounts
\* that are not a whole number of cents; negative amounts; infinity
Amounts ==
    {FloatV(150750), FloatV(75500), FloatV(100000), IntV(100), FloatV(0),
     Str(<<"1", "5", "0", ".", "7", "5">>), FloatV(10004), FloatV(10006), FloatV(19999),
     FloatV(-50000), IntV(-20), Str(<<"-", "0", ".", "0", "1">>), FloatV(-4),
     Str(<<"a", "b", "c">>), Inf}

\* a legacy id as pandas reads it: int64, or float64 when a cell of the
\* column is blank
IdValues(n) == {IntV(n), FloatV(n * 1000)}

FieldInputs ==
    UNION {{[model_class |-> m, row |-> [ModelData(m) EXCEPT ![f] = b]] :
                f \in RequiredFields(m), b \in Blanks} :
           m \in {"PatientModel", "EncounterModel", "InvoiceModel"}}
    \cup {[model_class |-> "InvoiceModel", row |-> [InvoiceData EXCEPT !.amount_usd = a]] :
              a \in Amounts}
    \cup {[model_class |-> "PatientModel", row |-> [PatientData EXCEPT !.legacy_id = i]] :
              i \in IdValues(1) \cup IdValues(123)}
    \cup UNION {{[model_class |-> m,
                  row |-> [ModelData(m) EXCEPT !.legacy_id = i, !.patient_id = p]] :
                     i \in IdValues(1), p \in IdValues(1) \cup IdValues(123)} :
                m \in {"EncounterModel", "InvoiceModel"}}

InitFields ==
    /\ pc = "call_model_class"
    /\ arg \in FieldInputs
    /\ res = NoResult
    /\ db = EmptyStore
    /\ NoRun

SpecFields == InitFields /\ [][Call_model_class]_vars

\* a value that is missing, empty, whitespace-only or the token nan
Absent(v) ==
    \/ v.k \in {"none", "nan"}
    \/ v.k = "str" /\ (strip(v.s) = <<>> \/ lower(strip(v.s)) = <<"n", "a", "n">>)

\* C21: no accepted record has an absent required field: a row in which any
\* mandatory field (patient first_name, last_name, dob, email, created_at;
\* encounter appointment_date, provider_name, location, status; invoice
\* amount_usd, status, issued_date) is missing, empty, whitespace-only or the
\* token nan is rejected, for every entity kind.
C21_RequiredFieldsPresent ==
    \A model_class \in {"PatientModel", "EncounterModel", "InvoiceModel"} :
        (/\ Returned(model_class)
         /\ \E f \in RequiredFields(model_class) : Absent(arg.row[f])) => ~res.ok

\* a patient whose first name is two blanks was accepted with that name
C21_Witness ==
    /\ Returned("PatientModel")
    /\ arg.row.first_name = Str(<<" ", " ">>)
    /\ res.ok
    /\ res.rec.first_name = Str(<<" ", " ">>)

\* what the models do: a mandatory field that has a validator (dob, email,
\* created_at, appointment_date, status, amount_usd, issued_date) rejects
\* every absent form; a mandatory field without one (first_name, last_name,
\* provider_name, location) rejects only None and NaN, by its type
C21_ValidatedFieldsPresent ==
    \A model_class \in {"PatientModel", "EncounterModel", "InvoiceModel"} :
        \A f \in RequiredFields(model_class) :
            (Returned(model_class) /\ Absent(arg.row[f])) =>
                IF f \in {"first_name", "last_name", "provider_name", "location"}
                    THEN res.ok <=> arg.row[f].k = "str"
                ELSE ~res.ok

\* an invoice with a blank issued date was rejected
C21_WitnessRejected ==
    /\ Returned("InvoiceModel")
    /\ arg.row.issued_date = Str(<<" ", " ">>)
    /\ ~res.ok
    /\ res.fields = <<"issued_date">>

\* the amount of a row in thousandths of a dollar, when it is a number
AmountOf(v) == python_float(v).v

\* C22: every accepted invoice has invoice_total_cents that is a
\* non-negative integer equal to amount_usd x 100 rounded to the nearest
\* integer (150.75 -> 15075, 75.50 -> 7550); no accepted invoice has a
\* negative invoice_total_cents.
C22_CentsNonNegative ==
    (Returned("InvoiceModel") /\ res.ok) =>
        LET cents == res.rec.invoice_total_cents
            d == cents.n * 10 - AmountOf(arg.row.amount_usd)
        IN  /\ cents.k = "int"
            /\ cents.n >= 0
            /\ d <= 5 /\ -d <= 5

\* an invoice of -50.00 dollars was accepted with -5000 cents
C22_Witness ==
    /\ Returned("InvoiceModel")
    /\ arg.row.amount_usd = FloatV(-50000)
    /\ res.ok
    /\ res.rec.invoice_total_cents = IntV(-5000)

\* what convert_dollars_to_cents does: the cents are amount_usd x 100 rounded
\* to the nearest integer, of the sign of the amount (150.75 -> 15075)
C22_CentsRounded ==
    (Returned("InvoiceModel") /\ res.ok) =>
        LET cents == res.rec.invoice_total_cents
            d == cents.n * 10 - AmountOf(arg.row.amount_usd)
        IN  /\ cents.k = "int"
            /\ d <= 5 /\ -d <= 5
            /\ arg.row.amount_usd = FloatV(150750) => cents.n = 15075
            /\ arg.row.amount_usd = FloatV(75500) => cents.n = 7550

\* the invoice of 150.75 dollars was accepted with 15075 cents
C22_WitnessTest ==
    /\ Returned("InvoiceModel")
    /\ arg.row.amount_usd = FloatV(150750)
    /\ res.ok
    /\ res.rec.invoice_total_cents = IntV(15075)

\* C23: the identifiers of every accepted record are functions of (entity
\* kind, legacy id) only: patient_uuid = derive_id('patient', legacy_id) for
\* patients and derive_id('patient', patient_id) for encounters and
\* invoices, whatever other fields or raw representation of the id the row
\* carries; hence an accepted encounter or invoice whose patient_id equals
\* the legacy_id of an accepted patient carries that patient's patient_uuid,
\* and the same legacy id under different namespaces gives different
\* identifiers.
C23_IdentifiersOfLegacyId ==
    /\ (Returned("PatientModel") /\ res.ok) =>
            res.rec.patient_uuid = generate_deterministic_uuid("patient", res.rec.legacy_id)
    /\ (Returned("EncounterModel") /\ res.ok) =>
            /\ res.rec.patient_uuid
                   = generate_deterministic_uuid("patient", res.rec.patient_legacy_id)
            /\ res.rec.encounter_uuid
                   = generate_deterministic_uuid("encounter", res.rec.legacy_id)
            /\ res.rec.encounter_uuid # res.rec.patient_uuid
    /\ (Returned("InvoiceModel") /\ res.ok) =>
            /\ res.rec.patient_uuid
                   = generate_deterministic_uuid("patient", res.rec.patient_legacy_id)
            /\ res.rec.invoice_uuid
                   = generate_deterministic_uuid("invoice", res.rec.legacy_id)
            /\ res.rec.invoice_uuid # res.rec.patient_uuid

\* an encounter whose patient_id was read as the float 1.0 was accepted as
\* one of patient 1, with another patient_uuid than the patient of legacy id
\* 1 has
C23_Witness ==
    /\ Returned("EncounterModel")
    /\ arg.row.patient_id = FloatV(1000)
    /\ res.ok
    /\ res.rec.patient_legacy_id = IntV(1)
    /\ res.rec.patient_uuid # PatientModel(PatientData).rec.patient_uuid

\* what the models do: the identifiers are derived from the id as the row
\* carries it, before it is validated
C23_IdentifiersOfRawId ==
    /\ (Returned("PatientModel") /\ res.ok) =>
            res.rec.patient_uuid = generate_deterministic_uuid("patient", arg.row.legacy_id)
    /\ (Returned("EncounterModel") /\ res.ok) =>
            /\ res.rec.patient_uuid = generate_deterministic_uuid("patient", arg.row.patient_id)
            /\ res.rec.encounter_uuid
                   = generate_deterministic_uuid("encounter", arg.row.legacy_id)
    /\ (Returned("InvoiceModel") /\ res.ok) =>
            /\ res.rec.patient_uuid = generate_deterministic_uuid("patient", arg.row.patient_id)
            /\ res.rec.invoice_uuid = generate_deterministic_uuid("invoice", arg.row.legacy_id)

-----------------------------------------------------------------------------
(* validate_data_quality_metrics on its own: one call on a source frame and *)
(* a target frame of one table                                              *)

\* n source invoices of the given amount, the first blank of them without
\* status
QualitySourceInvoices(n, blank, amount) ==
    [columns |-> SourceInvoiceColumns,
     rows |-> [i \in 1..n |->
                  [legacy_id |-> IntV(i),
                   patient_id |-> IntV(1),
                   amount_usd |-> amount,
                   status |-> IF i <= blank THEN NaN ELSE Str(<<"o","p","e","n">>),
                   issued_date |-> Str(<<"2","0","2","3","-","0","3","-","0","1"," ",
                                         "0","9",":","0","0">>),
                   paid_date |-> IF i = 1 THEN Str(<<"2","0","2","3","-","0","3","-","0","2",
                                                     " ","0","9",":","0","0">>)
                                 ELSE NaN]]]

\* n target invoices of the given cents as they are read back from the CSV
\* file, the first blank of them without status
QualityTargetInvoices(n, blank, cents) ==
    [columns |-> InvoiceColumns,
     rows |-> [i \in 1..n |->
                  [invoice_uuid |-> generate_deterministic_uuid("invoice", IntV(i)),
                   patient_uuid |-> generate_deterministic_uuid("patient", IntV(1)),
                   invoice_total_cents |-> IntV(cents),
                   status |-> IF i <= blank THEN NaN ELSE Str(<<"o","p","e","n">>),
                   issued_date_utc |-> [k |-> "datetime", y |-> 2023, mo |-> 3, d |-> 1,
                                        h |-> 14, mi |-> 0],
                   paid_date_utc |-> IF i = 1 THEN [k |-> "datetime", y |-> 2023, mo |-> 3,
                                                    d |-> 2, h |-> 14, mi |-> 0]
                                     ELSE NaN]]]

\* the rows of the frames, enough for a null difference of more than
\* NullDifferenceAllowed
QualityRows == NullDifferenceAllowed + 2

\* amounts of the source and cents of the target: equal; within 1% below and
\* above; just beyond; at 1%; far off; of the other sign; zero
MeanPairs ==
    {<<FloatV(10500), 1050>>, <<FloatV(10500), 1040>>, <<FloatV(10500), 1060>>,
     <<FloatV(10500), 1039>>, <<FloatV(10500), 1061>>, <<FloatV(10500), 2000>>,
     <<FloatV(10500), -1050>>, <<FloatV(10500), 0>>,
     <<IntV(10), 1000>>, <<IntV(10), 1010>>, <<IntV(10), 990>>,
     <<FloatV(-10500), -1050>>, <<FloatV(-10500), -1040>>, <<FloatV(-10500), -1061>>,
     <<FloatV(-10500), -2000>>, <<FloatV(-10500), 1050>>, <<FloatV(-10500), 0>>,
     <<FloatV(0), 0>>, <<FloatV(0), 1>>, <<IntV(0), -1>>}

\* a source frame of the two legacy columns only, and one with a column that
\* has no mapping
LegacyOnlyFrame ==
    [columns |-> <<"legacy_id", "patient_id">>,
     rows |-> [i \in 1..2 |-> [legacy_id |-> IntV(i), patient_id |-> NaN]]]
UnmappedFrame ==
    [columns |-> <<"legacy_id", "notes">>,
     rows |-> [i \in 1..2 |-> [legacy_id |-> IntV(i), notes |-> NaN]]]

\* whole amounts and their cents, for the frames of QualityRows rows
WholeMeanPairs == {<<IntV(10), 1000>>, <<IntV(10), 1010>>, <<IntV(-10), -1000>>}

QualityInputs ==
    {[source_df |-> QualitySourceInvoices(QualityRows, sb, m[1]),
      target_df |-> QualityTargetInvoices(QualityRows, tb, m[2]),
      table_name |-> "invoices"] :
         sb \in {0, NullDifferenceAllowed, NullDifferenceAllowed + 1, QualityRows},
         tb \in {0, 1}, m \in WholeMeanPairs}
    \cup {[source_df |-> QualitySourceInvoices(n, 0, m[1]),
           target_df |-> QualityTargetInvoices(n, 0, m[2]),
           table_name |-> "invoices"] : n \in {1, 2}, m \in MeanPairs}
    \cup {[source_df |-> p[1], target_df |-> p[2], table_name |-> "patients"] :
              p \in PatientFramePairs}
    \cup {[source_df |-> a[1], target_df |-> a[2], table_name |-> "appointments"] :
              a \in AppointmentFramePairs}
    \cup {[source_df |-> s, target_df |-> QualityTargetInvoices(2, 0, 1050),
           table_name |-> "invoices"] : s \in {LegacyOnlyFrame, UnmappedFrame}}
    \cup {[source_df |-> QualitySourceInvoices(2, 0, FloatV(10500)), target_df |-> NoFrame,
           table_name |-> "invoices"]}

InitQuality ==
    /\ pc = "call_validate_data_quality_metrics"
    /\ arg \in QualityInputs
    /\ res = NoResult
    /\ db = EmptyStore
    /\ NoRun

\* validate_data_quality_metrics(source_df, target_df, table_name)
Call_validate_data_quality_metrics ==
    /\ pc = "call_validate_data_quality_metrics"
    /\ res' = validate_data_quality_metrics(arg.source_df, arg.target_df, arg.table_name)
    /\ pc' = "returned_validate_data_quality_metrics"
    /\ UNCHANGED <<run, source, source_dfs, successful, failed, target_csv, db, target_dfs,
                   report, summary, failed_dir, log, error, prev, arg>>

SpecQuality == InitQuality /\ [][Call_validate_data_quality_metrics]_vars

\* the source columns with a non-null target mapping that is a column of the
\* target
ComparedColumns ==
    {c \in Range(arg.source_df.columns) :
        /\ mapping_get(arg.table_name, c) # "None"
        /\ HasColumn(arg.target_df, mapping_get(arg.table_name, c))}

\* the number of cells of a column that are absent
AbsentCount(df, c) == Cardinality({i \in 1..Len(df.rows) : isna(df.rows[i][c])})

\* C24: for each source column with a non-null target mapping that exists in
\* the target, the null-consistency entry is acceptable if and only if
\* |source absent count - target absent count| <= 5; null_consistency_passed
\* is true if and only if at least 90% of the compared fields are
\* acceptable, and is true with percentage 100.0 when no field is compared;
\* columns mapped to None (legacy_id, patient_id) are never compared.
C24_NullConsistency ==
    pc = "returned_validate_data_quality_metrics" =>
        LET analysis == res.null_value_analysis
            passed == {c \in DOMAIN analysis : analysis[c].acceptable}
        IN  /\ DOMAIN analysis = ComparedColumns
            /\ DOMAIN analysis \cap {"legacy_id", "patient_id"} = {}
            /\ \A c \in ComparedColumns :
                   analysis[c].acceptable <=>
                       Abs(AbsentCount(arg.source_df, c)
                           - AbsentCount(arg.target_df, mapping_get(arg.table_name, c))) <= 5
            /\ res.null_consistency_passed <=>
                   100 * Cardinality(passed) >= 90 * Cardinality(DOMAIN analysis)
            /\ ComparedColumns = {} =>
                   res.null_consistency_passed /\ res.null_consistency_percentage = 1000

\* invoices whose status is absent five times more often in the source than
\* in the target were compared and found acceptable
C24_Witness ==
    /\ pc = "returned_validate_data_quality_metrics"
    /\ arg.table_name = "invoices"
    /\ "status" \in ComparedColumns
    /\ res.null_value_analysis["status"].difference = 5
    /\ res.null_value_analysis["status"].acceptable
    /\ res.null_consistency_passed

\* with a difference of six the field was not acceptable and the check failed
C24_WitnessFailed ==
    /\ pc = "returned_validate_data_quality_metrics"
    /\ arg.table_name = "invoices"
    /\ "status" \in ComparedColumns
    /\ res.null_value_analysis["status"].difference = 6
    /\ ~res.null_value_analysis["status"].acceptable
    /\ ~res.null_consistency_passed

\* no field was compared
C24_WitnessNoneCompared ==
    /\ pc = "returned_validate_data_quality_metrics"
    /\ arg.source_df = LegacyOnlyFrame
    /\ res.null_consistency_passed

\* the money field was checked
MoneyChecked ==
    /\ pc = "returned_validate_data_quality_metrics"
    /\ res.numeric_percentage_set
    /\ "amount_usd" \in DOMAIN res.numeric_distribution_analysis

\* the target mean lies within 1% of source_mean x 100: with the means as
\* fractions s / (n * scale), |T - 100 * S| * 100 < 1 * |100 * S|
WithinOnePercent(source_mean, target_mean) ==
    LET S == source_mean.s * target_mean.n * target_mean.scale
        T == target_mean.s * source_mean.n * source_mean.scale
    IN  100 * Abs(T - 100 * S) < Abs(100 * S)

\* C25: for the money field (amount_usd -> invoice_total_cents) the numeric
\* check is consistent if and only if the target mean lies within 1% of
\* source_mean x 100, for every non-zero source mean whether positive or
\* negative; when the source mean is 0 the field is consistent iff the
\* target mean is 0; numeric_consistency_passed is true iff at least 85% of
\* the checked numeric fields are consistent (true when none is checked).
C25_MoneyConsistency ==
    /\ MoneyChecked =>
          LET entry == res.numeric_distribution_analysis["amount_usd"]
          IN  entry.consistent <=>
                  IF entry.source_mean.s # 0
                      THEN WithinOnePercent(entry.source_mean, entry.target_mean)
                  ELSE entry.target_mean.s = 0
    /\ pc = "returned_validate_data_quality_metrics" =>
          LET analysis == res.numeric_distribution_analysis
              passed == {c \in DOMAIN analysis : analysis[c].consistent}
          IN  res.numeric_consistency_passed <=>
                  100 * Cardinality(passed) >= 85 * Cardinality(DOMAIN analysis)

\* a source mean of -10.50 dollars and a target mean of -2000 cents were
\* found consistent
C25_Witness ==
    /\ MoneyChecked
    /\ arg.source_df.rows[1].amount_usd = FloatV(-10500)
    /\ arg.target_df.rows[1].invoice_total_cents = IntV(-2000)
    /\ res.numeric_distribution_analysis["amount_usd"].consistent
    /\ res.numeric_consistency_passed

\* what the check does: for a positive source mean the field is consistent
\* iff the target mean lies within 1% of source_mean x 100, for a negative
\* one it is always consistent, for a source mean of 0 iff the target mean
\* is 0
C25_MoneyConsistencyPositive ==
    MoneyChecked =>
        LET entry == res.numeric_distribution_analysis["amount_usd"]
        IN  entry.consistent <=>
                IF entry.source_mean.s > 0
                    THEN WithinOnePercent(entry.source_mean, entry.target_mean)
                ELSE IF entry.source_mean.s < 0 THEN TRUE
                ELSE entry.target_mean.s = 0

\* and numeric_consistency_passed is true iff at least 85% of the checked
\* numeric fields are consistent, true when none is checked
C25_NumericThreshold ==
    pc = "returned_validate_data_quality_metrics" =>
        LET analysis == res.numeric_distribution_analysis
            passed == {c \in DOMAIN analysis : analysis[c].consistent}
        IN  res.numeric_consistency_passed <=>
                100 * Cardinality(passed) >= 85 * Cardinality(DOMAIN analysis)

\* a source mean of 10.50 dollars and a target mean of 1061 cents were found
\* inconsistent
C25_WitnessPositive ==
    /\ MoneyChecked
    /\ arg.source_df.rows[1].amount_usd = FloatV(10500)
    /\ arg.target_df.rows[1].invoice_total_cents = IntV(1061)
    /\ ~res.numeric_distribution_analysis["amount_usd"].consistent
    /\ ~res.numeric_consistency_passed

-----------------------------------------------------------------------------
(* main() run on a store and a directory of rejected records that earlier   *)
(* runs on other source files left behind                                   *)

\* the store an earlier run left: another state of patient 1 and the
\* appointment and the invoice of a patient 2
OldStore ==
    export_to_sqlite(
        EmptyStore,
        clean(accepted(File(SourcePatientColumns, <<OldPatientRow>>), "PatientModel",
                       "patients"), {"legacy_id"}),
        clean(accepted(File(SourceAppointmentColumns, <<OldAppointmentRow>>),
                       "EncounterModel", "appointments"), {"legacy_id", "patient_legacy_id"}),
        clean(accepted(File(SourceInvoiceColumns, <<OldInvoiceRow>>), "InvoiceModel",
                       "invoices"), {"legacy_id", "patient_legacy_id"}),
        0).db

\* the files an earlier run (at time 0) left in target_data/failed
OldFailedFiles ==
    export_failed_records(
        validate_data(read_csv(File(SourcePatientColumns, <<PatientRowC>>)).df,
                      "PatientModel", "patients").failed,
        <<>>,
        validate_data(read_csv(File(SourceInvoiceColumns, <<InvoiceRowC>>)).df,
                      "InvoiceModel", "invoices").failed,
        0)

\* source files: every row valid; a rejected row in one, two or three of
\* them; a file whose rows are all rejected
RunSources ==
    [patients : {File(SourcePatientColumns, r) :
                    r \in {<<PatientRowA>>, <<PatientRowA, PatientRowC>>}},
     appointments : {File(SourceAppointmentColumns, r) :
                        r \in {<<AppointmentRowA>>, <<AppointmentRowA, AppointmentRowC>>,
                               <<AppointmentRowC>>}},
     invoices : {File(SourceInvoiceColumns, r) :
                    r \in {<<InvoiceRowA>>, <<InvoiceRowA, InvoiceRowC>>}}]

InitRuns ==
    /\ pc = "idle"
    /\ run = 0
    /\ source \in RunSources
    /\ db \in {EmptyStore, OldStore}
    /\ source_dfs = NoFrames
    /\ successful = NoRecords
    /\ failed = NoRecords
    /\ target_csv = [patients |-> NoFile, encounters |-> NoFile, billing_invoices |-> NoFile]
    /\ target_dfs = NoFrames
    /\ report = NoReport
    /\ summary = NoSummary
    /\ failed_dir \in {{}, OldFailedFiles}
    /\ log = <<>>
    /\ error = "none"
    /\ prev = [pc |-> "none"]
    /\ arg = 0
    /\ res = 0

SpecRuns == InitRuns /\ [][Next]_vars

\* the target frames main reads back in a run on the source files, and the
\* report it generates from them, computed from the source files alone
TargetsOf(files) ==
    LET dfs == load_source_data(files).dfs
        p == validate_data(dfs.patients, "PatientModel", "patients").successful
        a == validate_data(dfs.appointments, "EncounterModel", "appointments").successful
        i == validate_data(dfs.invoices, "InvoiceModel", "invoices").successful
        csv == save_target_data(p, a, i, EmptyStore, 0).csv
    IN  [patients |-> read_csv(csv.patients).df,
         appointments |-> to_datetime(read_csv(csv.encounters).df, "encounter_ts_utc"),
         invoices |-> to_datetime(to_datetime(read_csv(csv.billing_invoices).df,
                                              "issued_date_utc"), "paid_date_utc")]

ReportOf(files) ==
    LET dfs == load_source_data(files).dfs
        t == TargetsOf(files)
    IN  generate_reconcile_report(dfs.patients, t.patients, dfs.appointments,
                                  t.appointments, dfs.invoices, t.invoices).report

\* C28: the verdict of a run does not depend on what the SQLite store held
\* before the run: two runs of main on the same source rows, started from
\* two different prior store contents, produce the same target collections
\* for reconciliation and the same report flags and
\* overall_migration_status, because reconciliation reads the target CSV
\* written in this run and never the store.  (The target frames and the
\* report of every run are those computed from the source files alone.)
C28_VerdictIndependentOfStore ==
    /\ pc \in {"reconcile", "print", "finish", "done"} => target_dfs = TargetsOf(source)
    /\ pc \in {"print", "finish", "done"} => report = ReportOf(source)

\* a first run that started on the store of an earlier run, ended with a
\* report and left a store that a run on an empty store does not leave
C28_Witness ==
    /\ pc = "done"
    /\ run = 1
    /\ prev.db = OldStore
    /\ db # save_target_data(successful.patients, successful.appointments,
                             successful.invoices, EmptyStore, 0).db
    /\ report.validation_summary.overall_migration_status = "PASS"

\* the store holds a row for each accepted record of the run
Stored ==
    \A t \in Tables :
        \A i \in 1..Len(successful[t.records]) :
            \E r \in db[t.target] : r[t.id] = successful[t.records][i][t.id]

\* C29: export_to_sqlite is all-or-nothing for record writes: the patient,
\* encounter and invoice upserts of one run are committed together only
\* after the last invoice upsert succeeded, so if any upsert raises, the
\* rows of all three tables are exactly what they were before the run (no
\* record of the failed run is persisted in the store).
C29_AllOrNothing ==
    /\ (pc = "failed" /\ error = "sqlite3.Error") => db = prev.db
    /\ (pc \in {"reread", "reconcile", "print", "finish", "done"}
            \/ (pc = "failed" /\ FailedPhase \in {"reread", "reconcile"})) =>
           /\ Stored
           /\ db = save_target_data(successful.patients, successful.appointments,
                                    successful.invoices, prev.db, 0).db

\* a run whose store raised after records of the three tables were
\* accepted, on a store whose row of patient 1 the run would have updated
C29_Witness ==
    /\ pc = "failed"
    /\ error = "sqlite3.Error"
    /\ successful.patients # <<>>
    /\ successful.appointments # <<>>
    /\ successful.invoices # <<>>
    /\ prev.db = OldStore
    /\ db = OldStore
    /\ upsert_patient(db.patients, without(successful.patients[1], {"legacy_id"}))
           # db.patients

\* C30: rejected-record files never carry over between runs: main deletes
\* every old rejected-record file before loading the source, so at the end
\* of any run that completes, the failed directory contains only files
\* written by that run, and after a run with zero rejected rows it contains
\* no rejected-record file at all, whatever earlier runs left behind.
C30_NoCarryOver ==
    /\ pc # "idle" => \A f \in failed_dir : f.timestamp = run
    /\ pc = "done" =>
           /\ failed_dir = export_failed_records(failed.patients, failed.appointments,
                                                 failed.invoices, run)
           /\ ~Rejected => failed_dir = {}

\* a run without a rejected row that completed and left no file, in a
\* directory in which it found the files of an earlier run
C30_Witness ==
    /\ pc = "done"
    /\ ~Rejected
    /\ prev.failed_dir = OldFailedFiles
    /\ OldFailedFiles # {}
    /\ failed_dir = {}

\* a second run that rejected a row and left its own file only
C30_WitnessSecondRun ==
    /\ pc = "done"
    /\ run = 2
    /\ Rejected
    /\ prev.failed_dir # {}
    /\ failed_dir # {}
    /\ \A f \in failed_dir : f.timestamp = 2

=============================================================================
